---- MODULE Spec2Model ----
(***************************************************************************)
(* Model of the epidemic-data collector: the content-addressed             *)
(* StorageManager (src/src/managers/storage_manager.py), the retrying      *)
(* fetcher and the gap analysis (src/src/fetchers/enhanced_fetcher.py,     *)
(* src/src/fetchers/base_fetcher.py).                                      *)
(*                                                                         *)
(* Strings are TLA+ strings and are taken apart character by character     *)
(* (Len, SubSeq, \o), so that formatting, splitting and substring tests    *)
(* are computed the way the Python code computes them.                     *)
(***************************************************************************)
EXTENDS Integers, Sequences, FiniteSets, TLC

VARIABLES
    files,            \* artifact files under base_path: name -> [exists, data]
    metadata,         \* side records under .metadata: name -> [exists,
                      \*   sha256_hash, timestamp] (the fields the store reads)
    hash_index,       \* StorageManager.hash_index (insertion-ordered dict)
    hash_index_file,  \* content of .metadata/hash_index.json
    temp_files,       \* temporary files left in base_path
    clock,            \* wall clock of the store, in days
    faults,           \* number of I/O errors injected so far
    call,             \* the StorageManager call made last
    result,           \* what that call returned
    config,           \* DataFetcherConfig of the fetcher
    func,             \* the callable given to fetch_with_retry
    fpc,              \* where fetch_with_retry_async stands
    attempt,          \* loop variable of execute_with_retry
    retry_count,      \* invocations counted by the _fetch closure
    outcomes,         \* what each invocation of the callable did
    sleeps,           \* the delays execute_with_retry slept, in order
    last_error,       \* last_error of execute_with_retry
    retry_result,     \* what execute_with_retry returned or raised last
    fetch_result,     \* the FetchResult returned last
    time,             \* time.time(), in ticks
    last_request_time,\* RateLimiter.last_request_time
    fetches,          \* fetches started so far
    gap_call,         \* the arguments of get_missing_data and the date
    gap_result,       \* the list get_missing_data returned
    gpc,              \* whether get_missing_data has run
    gap_reports,      \* what the two other gap detectors reported
    calc_call,        \* the helper called last and its arguments
    calc_result,      \* the number that helper returned
    calc_outcome,     \* the list it returned, or the exception it raised
    run_in,           \* command line, configuration and date of a run
    mpc,              \* where main stands
    stats,            \* DataCollector.stats
    work,             \* the series left, and the work list being processed
    processed,        \* the periods processed so far, and what happened
    plans,            \* the work list computed for each series so far
    elapsed,          \* hours since collect_data started
    stopped_at,       \* how many periods were processed when a time check
                      \*   first found the ceiling exceeded (0: never)
    commits,          \* the calls of commit_changes and their results
    exit_code,        \* status the process ended with (-1: still running)
    main_log,         \* what main logged as errors
    saves,            \* the saves made under drawn names, and their results
    list_call,        \* the last call of get_existing_files and its result
    probe,            \* an entry added to the index and removed again
    earlier_runs,     \* what the earlier runs on the same store processed
    threads           \* the threads saving at once: each one's position
                      \*   in save_with_metadata and its sorted_index

storeVars == <<files, metadata, hash_index, hash_index_file, temp_files,
               clock, faults, call, result>>

fetchVars == <<config, func, fpc, attempt, retry_count, outcomes, sleeps,
               last_error, retry_result, fetch_result, time,
               last_request_time, fetches>>

gapVars == <<gap_call, gap_result, gpc, gap_reports>>

calcVars == <<calc_call, calc_result, calc_outcome>>

runVars == <<run_in, mpc, stats, work, processed, plans, elapsed, stopped_at,
             commits, exit_code, main_log>>

nameVars == <<saves, list_call>>

vars == <<storeVars, fetchVars, gapVars, calcVars, runVars, nameVars, probe, earlier_runs, threads>>

-----------------------------------------------------------------------------
(* Bounds of the storage model *)

MaxPayload == 2
MaxPeriod == 2
MaxClock == 1
MaxFaults == 1

(* Bounds of the fetch model *)

MaxRetries == 2
MaxFetches == 2

(* Bound of the gap analysis: the stored periods are drawn from 1..this *)

MaxStored == 5

(* Bound of the helper calls: calculate_delay is called with 0..this *)

MaxAttempt == 4

(* Bound of the helper calls: the years drawn are 1900..1900 + this, one  *)
(* whole cycle of the Gregorian calendar                                 *)

MaxYearSpan == 400

(* Bounds of the collector: the ceiling max_execution_time_hours, and the  *)
(* number of periods the runs drawn plan at most                          *)

MaxHours == 1
MaxWork == 4

(* Bound of the store under drawn names: the saves made *)

MaxSaves == 2

(* Bound of the repeated collector: the runs made on one store *)

MaxRuns == 2

(* Bound of the concurrent store: the threads that save at once *)
MaxThreads == 3

-----------------------------------------------------------------------------
(* Strings *)

Char(s, i) == SubSeq(s, i, i)

\* The characters that occur in stored file names, in code-point order.
AsciiOrder == "\n.0123456789ABCDEFGHIJKLMNOPQRSTUVWXYZ_abcdefghijklmnopqrstuvwxyz"

CharRank(c) == CHOOSE i \in 1..Len(AsciiOrder) : Char(AsciiOrder, i) = c

RECURSIVE StrLess(_, _)
\* Python's str "<": lexicographic by code point, a proper prefix is smaller.
StrLess(a, b) ==
    IF b = "" THEN FALSE
    ELSE IF a = "" THEN TRUE
    ELSE IF Char(a, 1) = Char(b, 1)
         THEN StrLess(SubSeq(a, 2, Len(a)), SubSeq(b, 2, Len(b)))
         ELSE CharRank(Char(a, 1)) < CharRank(Char(b, 1))

\* str(n) for n >= 0.
Str(n) == ToString(n)

\* f"{n:02d}" for n >= 0.
Pad2(n) == IF n < 10 THEN "0" \o ToString(n) ELSE ToString(n)

Range(s) == {s[i] : i \in 1..Len(s)}

-----------------------------------------------------------------------------
(* Payloads, hashes, files *)

\* Payloads are two-byte strings; a partial write leaves a strict prefix.
Payloads == {<<d, d>> : d \in 1..MaxPayload}

PartialWrites(data) == {SubSeq(data, 1, n) : n \in 0..(Len(data) - 1)}

\* hashlib.sha256(data).hexdigest(): injective on the payloads of the model.
Sha256(data) == <<"sha256", data>>

NoFile == [exists |-> FALSE, data |-> <<>>]

FileOf(data) == [exists |-> TRUE, data |-> data]

NoMetadata ==
    [exists |-> FALSE, sha256_hash |-> Sha256(<<>>), timestamp |-> 0]

\* _validate_data_type: re.match(r"^[a-zA-Z0-9_]+$"); "$" also matches just
\* before one trailing newline.
AllowedChars ==
    {Char(AsciiOrder, i) : i \in 1..Len(AsciiOrder)} \ {".", "\n"}

ValidateDataType(data_type) ==
    LET n == Len(data_type)
        body == IF n >= 1 /\ Char(data_type, n) = "\n" THEN n - 1 ELSE n
    IN  /\ body >= 1
        /\ \A i \in 1..body : Char(data_type, i) \in AllowedChars

\* filename = f"{data_type}_{year}_{period:02d}.csv"
FileName(data_type, year, period) ==
    data_type \o "_" \o Str(year) \o "_" \o Pad2(period) \o ".csv"

StoreTypes == {"test_type"}
StoreYears == {2025}
StorePeriods == 1..MaxPeriod

StorePaths ==
    {FileName(dt, y, p) :
        dt \in {t \in StoreTypes : ValidateDataType(t)},
        y \in StoreYears, p \in StorePeriods}

-----------------------------------------------------------------------------
(* The hash index: an insertion-ordered dict  hash -> path | list of paths, *)
(* modelled as a sequence of entries [hash, paths, is_list].                *)

IndexPos(index, file_hash) ==
    IF \E i \in 1..Len(index) : index[i].hash = file_hash
    THEN CHOOSE i \in 1..Len(index) : index[i].hash = file_hash
    ELSE 0

DeleteAt(s, i) == SubSeq(s, 1, i - 1) \o SubSeq(s, i + 1, Len(s))

\* list.remove(x): drops the first occurrence.
ListRemove(s, x) ==
    DeleteAt(s, CHOOSE i \in 1..Len(s) :
                    s[i] = x /\ \A j \in 1..(i - 1) : s[j] # x)

\* A duplicate check that never finds the hash.
check_duplicates_never(index, file_hash) == FALSE

\* file_hash in self.hash_index
check_duplicates(index, file_hash) == IndexPos(index, file_hash) # 0

\* A removal that leaves a list of one path a list.
RemoveFromHashIndex_keeps_list(index, file_hash, file_path) ==
    LET i == IndexPos(index, file_hash) IN
    IF i = 0 \/ file_path \notin Range(index[i].paths) THEN index
    ELSE IF Len(index[i].paths) = 1 THEN DeleteAt(index, i)
    ELSE [index EXCEPT ![i] =
            [hash |-> file_hash,
             paths |-> ListRemove(index[i].paths, file_path),
             is_list |-> TRUE]]

\* A removal that leaves the old entry in place.
RemoveFromHashIndex_keeps(index, file_hash, file_path) == index

\* The in-memory effect of _remove_from_hash_index.
RemoveFromHashIndex(index, file_hash, file_path) ==
    LET i == IndexPos(index, file_hash) IN
    IF i = 0 THEN index
    ELSE LET current_entry == index[i] IN
         IF ~current_entry.is_list
         THEN IF current_entry.paths[1] = file_path
              THEN DeleteAt(index, i)
              ELSE index
         ELSE IF file_path \in Range(current_entry.paths)
              THEN LET rest == ListRemove(current_entry.paths, file_path) IN
                   IF rest = <<>> THEN DeleteAt(index, i)
                   ELSE IF Len(rest) = 1
                        THEN [index EXCEPT ![i] =
                                [hash |-> file_hash, paths |-> rest,
                                 is_list |-> FALSE]]
                        ELSE [index EXCEPT ![i].paths = rest]
              ELSE index

\* _remove_from_hash_index rewrites hash_index.json unless it returned early.
RemoveWritesFile(index, file_hash) == IndexPos(index, file_hash) # 0

AddToHashIndex(index, file_hash, file_path) ==
    LET i == IndexPos(index, file_hash) IN
    IF i = 0
    THEN Append(index, [hash |-> file_hash, paths |-> <<file_path>>,
                        is_list |-> FALSE])
    ELSE LET current == index[i] IN
         IF ~current.is_list
         THEN IF current.paths[1] # file_path
              THEN [index EXCEPT ![i] =
                      [hash |-> file_hash,
                       paths |-> <<current.paths[1], file_path>>,
                       is_list |-> TRUE]]
              ELSE index
         ELSE IF file_path \notin Range(current.paths)
              THEN [index EXCEPT ![i].paths = Append(current.paths, file_path)]
              ELSE index

RECURSIVE FlattenIndex(_)
\* items_to_sort: the (hash, path) pairs in dict order.
FlattenIndex(index) ==
    IF index = <<>> THEN <<>>
    ELSE [i \in 1..Len(index[1].paths) |->
             [hash |-> index[1].hash, path |-> index[1].paths[i]]]
         \o FlattenIndex(Tail(index))

RECURSIVE InsertByPath(_, _)
\* Places item after every element whose path is not greater (stable).
InsertByPath(sorted, item) ==
    IF sorted = <<>> THEN <<item>>
    ELSE IF StrLess(item.path, sorted[1].path)
         THEN <<item>> \o sorted
         ELSE <<sorted[1]>> \o InsertByPath(Tail(sorted), item)

\* A sort that leaves the items in dict order.
SortByPath_dict_order(items) == items

RECURSIVE SortByPath(_)
\* items_to_sort.sort(key=lambda x: x[1])
SortByPath(items) ==
    IF items = <<>> THEN <<>>
    ELSE InsertByPath(SortByPath(SubSeq(items, 1, Len(items) - 1)),
                      items[Len(items)])

RECURSIVE RebuildIndex(_, _)
\* The loop of _sort_hash_index_by_filename that rebuilds the dict.
RebuildIndex(sorted_index, items) ==
    IF items = <<>> THEN sorted_index
    ELSE LET hash_key == items[1].hash
             path == items[1].path
             i == IndexPos(sorted_index, hash_key)
             next ==
                IF i = 0
                THEN Append(sorted_index,
                            [hash |-> hash_key, paths |-> <<path>>,
                             is_list |-> FALSE])
                ELSE IF ~sorted_index[i].is_list
                     THEN [sorted_index EXCEPT ![i] =
                             [hash |-> hash_key,
                              paths |-> <<sorted_index[i].paths[1], path>>,
                              is_list |-> TRUE]]
                     ELSE IF path \notin Range(sorted_index[i].paths)
                          THEN [sorted_index EXCEPT ![i].paths =
                                   Append(sorted_index[i].paths, path)]
                          ELSE sorted_index
         IN  RebuildIndex(next, Tail(items))

SortHashIndexByFilename(index) ==
    RebuildIndex(<<>>, SortByPath(FlattenIndex(index)))

\* Nothing was added and removed yet.
\* No thread is saving.
NoThreads == <<>>

NoProbe ==
    [done |-> FALSE, hash |-> Sha256(<<>>), path |-> "", before |-> <<>>,
     added |-> <<>>, after |-> <<>>]

\* The set of paths listed under file_hash.
PathsOf(index, file_hash) ==
    UNION {Range(index[i].paths) :
              i \in {j \in 1..Len(index) : index[j].hash = file_hash}}

\* The set of hashes that list file_path.
HashesOf(index, file_path) ==
    {index[i].hash :
        i \in {j \in 1..Len(index) : file_path \in Range(index[j].paths)}}

-----------------------------------------------------------------------------
(* StorageManager.save_with_metadata *)

\* Where an I/O error is injected into one save call.
FailPoints ==
    {"none", "remove_index", "mkstemp", "write", "replace", "metadata",
     "update_index"}

SaveResult(success, file_path, metadata_path, error, is_duplicate, is_new) ==
    [success |-> success, file_path |-> file_path,
     metadata_path |-> metadata_path, error |-> error,
     is_duplicate |-> is_duplicate, is_new |-> is_new]

NoResult == SaveResult(FALSE, "None", "None", "None", FALSE, FALSE)

\* metadata_filename = filename.replace('.csv', '.json'), for the names the
\* store generates (".csv" occurs once, at the end).
MetadataName(filename) == SubSeq(filename, 1, Len(filename) - 4) \o ".json"

\* temp_file.unlink() in the except branch.
UnlinkTemp(temps, t) == temps \ {t}

\* A write that goes straight to the canonical path, with no temporary file.
AtomicWrite_in_place(file_path, old_file, data, fail, partial) ==
    IF fail = "mkstemp"
    THEN [ok |-> FALSE, file |-> old_file, temp |-> {}]
    ELSE IF fail = "write"
    THEN [ok |-> FALSE, file |-> FileOf(partial), temp |-> {}]
    ELSE IF fail = "replace"
    THEN [ok |-> FALSE, file |-> FileOf(data), temp |-> {}]
    ELSE [ok |-> TRUE, file |-> FileOf(data), temp |-> {}]

\* Lines 296-311: mkstemp, os.write, os.close, replace; on an exception the
\* temporary file is unlinked.  partial is what a failing os.write left.
AtomicWrite(file_path, old_file, data, fail, partial) ==
    LET temp_of(d) == [of |-> file_path, data |-> d] IN
    IF fail = "mkstemp"
    THEN [ok |-> FALSE, file |-> old_file, temp |-> {}]
    ELSE IF fail = "write"
    THEN [ok |-> FALSE, file |-> old_file,
          temp |-> UnlinkTemp({temp_of(partial)}, temp_of(partial))]
    ELSE IF fail = "replace"
    THEN [ok |-> FALSE, file |-> old_file,
          temp |-> UnlinkTemp({temp_of(data)}, temp_of(data))]
    ELSE [ok |-> TRUE, file |-> FileOf(data), temp |-> {}]

\* _update_hash_index: add, then sort and persist; a failure to persist is
\* logged and leaves the unsorted in-memory index and the old file.
UpdateHashIndex(index, index_file, file_hash, file_path, fail) ==
    LET added == AddToHashIndex(index, file_hash, file_path)
        sorted_index == SortHashIndexByFilename(added)
    IN  IF fail = "update_index"
        THEN [index |-> added, index_file |-> index_file]
        ELSE [index |-> sorted_index, index_file |-> sorted_index]

\* Whether the call gets as far as the step at which fail is injected.
ReachesFail(data, data_type, year, period, force_overwrite, fail) ==
    LET file_path == FileName(data_type, year, period) IN
    \/ fail = "none"
    \/ /\ ValidateDataType(data_type)
       /\ ~(~force_overwrite /\ check_duplicates(hash_index, Sha256(data)))
       /\ fail = "remove_index" =>
             /\ force_overwrite
             /\ files[file_path].exists
             /\ RemoveWritesFile(hash_index, Sha256(files[file_path].data))

\* The state after save_with_metadata, as a record of the store's parts.
SaveWithMetadata(data, data_type, year, period, force_overwrite, fail, partial) ==
    LET unchanged ==
            [files |-> files, metadata |-> metadata,
             hash_index |-> hash_index, hash_index_file |-> hash_index_file,
             temp_files |-> temp_files, result |-> NoResult]
    IN
    IF ~ValidateDataType(data_type)
    THEN [unchanged EXCEPT
            !.result = SaveResult(FALSE, "None", "None", "Invalid data_type",
                                  FALSE, FALSE)]
    ELSE
    LET data_hash == Sha256(data) IN
    IF ~force_overwrite /\ check_duplicates(hash_index, data_hash)
    THEN [unchanged EXCEPT
            !.result = SaveResult(TRUE, "None", "None", "None", TRUE, FALSE)]
    ELSE
    LET file_path == FileName(data_type, year, period)
        is_new_file == ~files[file_path].exists
        removing == files[file_path].exists /\ force_overwrite
        old_hash == Sha256(files[file_path].data)
        index1 == IF removing
                  THEN RemoveFromHashIndex(hash_index, old_hash, file_path)
                  ELSE hash_index
        index_file1 ==
            IF removing /\ RemoveWritesFile(hash_index, old_hash)
               /\ fail # "remove_index"
            THEN index1
            ELSE hash_index_file
        failed == SaveResult(FALSE, "None", "None", "OSError", FALSE, FALSE)
        after_remove ==
            [unchanged EXCEPT !.hash_index = index1,
                              !.hash_index_file = index_file1]
    IN
    IF fail = "remove_index"
    THEN [after_remove EXCEPT !.result = failed]
    ELSE
    LET written == AtomicWrite(file_path, files[file_path], data, fail,
                               partial)
        after_write ==
            [after_remove EXCEPT
                !.files = [files EXCEPT ![file_path] = written.file],
                !.temp_files = temp_files \cup written.temp]
    IN
    IF ~written.ok
    THEN [after_write EXCEPT !.result = failed]
    ELSE IF fail = "metadata"
    THEN [after_write EXCEPT !.result = failed]
    ELSE
    LET new_metadata ==
            [exists |-> TRUE, sha256_hash |-> data_hash, timestamp |-> clock]
        updated == UpdateHashIndex(index1, index_file1, data_hash, file_path,
                                   fail)
    IN  [after_write EXCEPT
            !.metadata = [metadata EXCEPT ![file_path] = new_metadata],
            !.hash_index = updated.index,
            !.hash_index_file = updated.index_file,
            !.result = SaveResult(TRUE, file_path, MetadataName(file_path),
                                  "None", FALSE, is_new_file)]

-----------------------------------------------------------------------------
(* StorageManager.cleanup_old_files *)

DaysToKeep == {0, 1}

\* The files the loop deletes: those with a side record older than the cutoff.
Expired(days_to_keep) ==
    {f \in StorePaths :
        /\ files[f].exists
        /\ metadata[f].exists
        /\ metadata[f].timestamp < clock - days_to_keep}

-----------------------------------------------------------------------------
(* The store as a state machine *)

\* The call record also keeps what the call found at its canonical path
\* (old_file) and what cleanup deleted, for stating the properties.
SaveCall(data, data_type, year, period, force_overwrite, fail) ==
    [op |-> "save", data |-> data, data_type |-> data_type, year |-> year,
     period |-> period, force_overwrite |-> force_overwrite, fail |-> fail,
     old_file |-> IF ValidateDataType(data_type)
                  THEN files[FileName(data_type, year, period)]
                  ELSE NoFile,
     days_to_keep |-> 0, deleted |-> {}]

CleanupCall(days_to_keep, deleted) ==
    [op |-> "cleanup", data |-> <<>>, data_type |-> "", year |-> 0,
     period |-> 0, force_overwrite |-> FALSE, fail |-> "none",
     old_file |-> NoFile, days_to_keep |-> days_to_keep,
     deleted |-> deleted]

NoCall ==
    [op |-> "none", data |-> <<>>, data_type |-> "", year |-> 0,
     period |-> 0, force_overwrite |-> FALSE, fail |-> "none",
     old_file |-> NoFile, days_to_keep |-> 0, deleted |-> {}]

\* StorageManager.__init__ on an empty base directory.
StoreInit ==
    /\ files = [f \in StorePaths |-> NoFile]
    /\ metadata = [f \in StorePaths |-> NoMetadata]
    /\ hash_index = <<>>
    /\ hash_index_file = <<>>
    /\ temp_files = {}
    /\ clock = 0
    /\ faults = 0
    /\ call = NoCall
    /\ result = NoResult

Save ==
    \E data \in Payloads, data_type \in StoreTypes, year \in StoreYears,
       period \in StorePeriods, force_overwrite \in BOOLEAN,
       fail \in FailPoints :
        /\ ReachesFail(data, data_type, year, period, force_overwrite, fail)
        /\ fail # "none" => faults < MaxFaults
        /\ \E partial \in IF fail = "write" THEN PartialWrites(data)
                                            ELSE {<<>>} :
           \E after \in {SaveWithMetadata(data, data_type, year, period,
                                          force_overwrite, fail, partial)} :
                 /\ files' = after.files
                 /\ metadata' = after.metadata
                 /\ hash_index' = after.hash_index
                 /\ hash_index_file' = after.hash_index_file
                 /\ temp_files' = after.temp_files
                 /\ result' = after.result
        /\ faults' = IF fail = "none" THEN faults ELSE faults + 1
        /\ call' = SaveCall(data, data_type, year, period, force_overwrite,
                            fail)
        /\ UNCHANGED <<clock, fetchVars, gapVars, calcVars,
                   runVars, nameVars, probe, earlier_runs, threads>>

CleanupOldFiles ==
    \E days_to_keep \in DaysToKeep :
        LET deleted == Expired(days_to_keep) IN
        /\ files' = [f \in StorePaths |->
                        IF f \in deleted THEN NoFile ELSE files[f]]
        /\ metadata' = [f \in StorePaths |->
                           IF f \in deleted THEN NoMetadata ELSE metadata[f]]
        /\ call' = CleanupCall(days_to_keep, deleted)
        /\ result' = NoResult
        /\ UNCHANGED <<hash_index, hash_index_file, temp_files, clock, faults,
                       fetchVars, gapVars, calcVars,
                   runVars, nameVars, probe, earlier_runs, threads>>

\* Time passes between calls.
Tick ==
    /\ clock < MaxClock
    /\ clock' = clock + 1
    /\ call' = NoCall
    /\ result' = NoResult
    /\ UNCHANGED <<files, metadata, hash_index, hash_index_file, temp_files,
                   faults, fetchVars, gapVars, calcVars,
                   runVars, nameVars, probe, earlier_runs, threads>>

-----------------------------------------------------------------------------
(* The retrying fetcher: RetryHandler, RateLimiter, fetch_with_retry_async  *)
(* and the upstream call _post_request.  Time is counted in ticks of a      *)
(* quarter of a second.                                                     *)

\* Exceptions are told apart by class and, for HTTPError, by status code.
Exc(cls, status) == [cls |-> cls, status |-> status]

NoError == Exc("None", 0)

\* What one HTTP exchange with the upstream can end in.
UpstreamEvents ==
    {"ok", "malformed", "timeout", "connection_failure", "http_500",
     "http_429", "http_404"}

StatusOf(event) ==
    IF event \in {"ok", "malformed"} THEN 200
    ELSE IF event = "http_500" THEN 500
    ELSE IF event = "http_429" THEN 429
    ELSE IF event = "http_404" THEN 404
    ELSE 0

\* The body of an answer with status 200.
ContentOf(event) == IF event = "ok" THEN "csv" ELSE "garbage"

Returned(data, event) ==
    [kind |-> "return", data |-> data, exc |-> NoError, event |-> event]

Raised(exc, event) ==
    [kind |-> "raise", data |-> "None", exc |-> exc, event |-> event]

\* _post_request: session.post raises requests' Timeout or requests'
\* ConnectionError; a response is returned when its status is 200 and
\* otherwise turned into a plain Exception.
PostRequest(event) ==
    IF event = "timeout" THEN Raised(Exc("Timeout", 0), event)
    ELSE IF event = "connection_failure"
    THEN Raised(Exc("requests.ConnectionError", 0), event)
    ELSE IF StatusOf(event) = 200 THEN Returned(ContentOf(event), event)
    ELSE Raised(Exc("Exception", StatusOf(event)), event)

\* What a callable handed to execute_with_retry directly may do (the test
\* doubles): return, or raise an exception of any class.
StubOutcomes ==
    {Returned("csv", "stub"), Returned("None", "stub")} \cup
    {Raised(e, "stub") :
        e \in {Exc("Timeout", 0), Exc("ConnectionError", 0),
               Exc("HTTPError", 500), Exc("HTTPError", 429),
               Exc("HTTPError", 404), Exc("ValueError", 0)}}

CallOutcomes(f) ==
    IF f = "fetch_method" THEN {PostRequest(ev) : ev \in UpstreamEvents}
    ELSE StubOutcomes

\* except (Timeout, ConnectionError, HTTPError): ConnectionError is the
\* builtin one, requests' ConnectionError is not imported.
Retryable(exc) == exc.cls \in {"Timeout", "ConnectionError", "HTTPError"}

Min(a, b) == IF a < b THEN a ELSE b

Max(a, b) == IF a > b THEN a ELSE b

RECURSIVE Pow2(_)
Pow2(n) == IF n = 0 THEN 1 ELSE 2 * Pow2(n - 1)

\* random.uniform(0, 0.5), in ticks.
Jitters == {0, 1}

\* calculate_delay without the jitter term.
BackoffDelay_uncapped(cfg, n) == cfg.base_delay * Pow2(n)

BackoffDelay(cfg, n) == Min(cfg.base_delay * Pow2(n), cfg.max_delay)

\* calculate_delay(attempt) for a drawn jitter.
calculate_delay(cfg, n, jitter) ==
    BackoffDelay(cfg, n) + (IF cfg.enable_jitter THEN jitter ELSE 0)

\* The delay execute_with_retry computes after a retryable error.
RetryDelay_standard(cfg, exc, n, jitter) == calculate_delay(cfg, n, jitter)

RetryDelay(cfg, exc, n, jitter) ==
    IF exc.cls = "HTTPError" /\ exc.status = 429
    THEN calculate_delay(cfg, n + 1, jitter) * 2
    ELSE calculate_delay(cfg, n, jitter)

\* if attempt < self.config.max_retries: sleep and go on, else re-raise.
SleepsAgain_always(cfg, n) == TRUE

SleepsAgain(cfg, n) == n < cfg.max_retries

\* RateLimiter.wait_if_needed: how long it sleeps.
RateLimitWait_none(min_delay, now, last) == 0

RateLimitWait(min_delay, now, last) ==
    IF now - last < min_delay THEN min_delay - (now - last) ELSE 0

FetchResult(success, data, error, count) ==
    [success |-> success, data |-> data, error |-> error,
     retry_count |-> count]

NoFetchResult == FetchResult(FALSE, "None", NoError, 0)

NoRetryResult ==
    [kind |-> "none", data |-> "None", exc |-> NoError, event |-> "none"]

\* Whether a returned value is a bytes object (None is not).
IsBytes(data) == data # "None"

\* What fetch_with_retry_async makes of the end of execute_with_retry: a
\* returned value goes through _create_metadata, which hashes it and raises
\* TypeError unless it is bytes; every Exception becomes a failed result.
WrapRetryResult_unchecked(res, count) ==
    FetchResult(res.kind = "return", res.data, res.exc, count)

WrapRetryResult(res, count) ==
    IF res.kind = "return" /\ IsBytes(res.data)
    THEN FetchResult(TRUE, res.data, NoError, count)
    ELSE IF res.kind = "return"
    THEN FetchResult(FALSE, "None", Exc("TypeError", 0), count)
    ELSE FetchResult(FALSE, "None", res.exc, count)

\* How long one invocation of the callable takes, in ticks.
Durations == {0, 2}

\* DataFetcherConfig(max_retries, base_delay=1.0, max_delay=3.0,
\* rate_limit_delay=1.0, enable_jitter), in ticks: the delay of attempt 2 and
\* the delay a 429 doubles after attempt 1 reach the maximum.
FetchConfigs ==
    {[max_retries |-> m, base_delay |-> 4, max_delay |-> 12,
      rate_limit_delay |-> 4, enable_jitter |-> j] :
        m \in 0..MaxRetries, j \in BOOLEAN}

FetchIdle ==
    /\ func = "none"
    /\ fpc = "idle"
    /\ attempt = 0
    /\ retry_count = 0
    /\ outcomes = <<>>
    /\ sleeps = <<>>
    /\ last_error = NoError
    /\ retry_result = NoRetryResult
    /\ fetch_result = NoFetchResult
    /\ time = 0
    /\ last_request_time = 0
    /\ fetches = 0

\* EnhancedEpidemicDataFetcher(config)
FetchInit ==
    /\ config \in FetchConfigs
    /\ FetchIdle

\* fetch_with_retry_async is entered: retry_count = 0, the loop starts.
StartFetch ==
    /\ fpc = "idle"
    /\ fetches < MaxFetches
    /\ \E f \in {"fetch_method", "stub"} : func' = f
    /\ fpc' = "attempting"
    /\ attempt' = 0
    /\ retry_count' = 0
    /\ outcomes' = <<>>
    /\ sleeps' = <<>>
    /\ last_error' = NoError
    /\ retry_result' = NoRetryResult
    /\ fetch_result' = NoFetchResult
    /\ fetches' = fetches + 1
    /\ UNCHANGED <<config, time, last_request_time, storeVars, gapVars, calcVars,
                   runVars, nameVars, probe, earlier_runs, threads>>

\* One pass of the loop body up to the sleep: the rate limiter waits, the
\* callable is invoked, and its outcome is returned, re-raised or retried.
Attempt ==
    /\ fpc = "attempting"
    /\ \E outcome \in CallOutcomes(func), duration \in Durations,
          jitter \in Jitters :
        LET started == time + RateLimitWait(config.rate_limit_delay, time,
                                            last_request_time)
            count == retry_count + 1
        IN
        /\ last_request_time' = started
        /\ time' = started + duration
        /\ retry_count' = count
        /\ outcomes' = Append(outcomes, outcome)
        /\ IF outcome.kind = "return"
           THEN /\ fpc' = "done"
                /\ retry_result' = outcome
                /\ fetch_result' = WrapRetryResult(outcome, count)
                /\ UNCHANGED <<last_error, sleeps>>
           ELSE IF Retryable(outcome.exc)
           THEN /\ last_error' = outcome.exc
                /\ IF SleepsAgain(config, attempt)
                   THEN /\ fpc' = "sleeping"
                        /\ sleeps' = Append(sleeps,
                                        RetryDelay(config, outcome.exc,
                                                   attempt, jitter))
                        /\ UNCHANGED <<retry_result, fetch_result>>
                   ELSE /\ fpc' = "done"
                        /\ retry_result' = outcome
                        /\ fetch_result' = WrapRetryResult(outcome, count)
                        /\ UNCHANGED sleeps
           ELSE /\ fpc' = "done"
                /\ retry_result' = outcome
                /\ fetch_result' = WrapRetryResult(outcome, count)
                /\ UNCHANGED <<last_error, sleeps>>
    /\ UNCHANGED <<config, func, attempt, fetches, storeVars, gapVars, calcVars,
                   runVars, nameVars, probe, earlier_runs, threads>>

\* asyncio.sleep(delay) returns and the loop goes to the next attempt; when
\* the range is exhausted, "if last_error: raise last_error".
Backoff ==
    /\ fpc = "sleeping"
    /\ time' = time + sleeps[Len(sleeps)]
    /\ attempt' = attempt + 1
    /\ IF attempt + 1 <= config.max_retries
       THEN /\ fpc' = "attempting"
            /\ UNCHANGED <<retry_result, fetch_result>>
       ELSE /\ fpc' = "done"
            /\ retry_result' = Raised(last_error, "none")
            /\ fetch_result' = WrapRetryResult(Raised(last_error, "none"),
                                               retry_count)
    /\ UNCHANGED <<config, func, retry_count, outcomes, sleeps, last_error,
                   last_request_time, fetches, storeVars, gapVars, calcVars,
                   runVars, nameVars, probe, earlier_runs, threads>>

\* The FetchResult is handed to the caller; the fetcher can be used again.
FinishFetch ==
    /\ fpc = "done"
    /\ fpc' = "idle"
    /\ UNCHANGED <<config, func, attempt, retry_count, outcomes, sleeps,
                   last_error, retry_result, fetch_result, time,
                   last_request_time, fetches, storeVars, gapVars, calcVars,
                   runVars, nameVars, probe, earlier_runs, threads>>

-----------------------------------------------------------------------------
(* Dates: date.toordinal, date.weekday and date.isocalendar *)

IsLeap(y) == (y % 4 = 0) /\ ((y % 100 # 0) \/ (y % 400 = 0))

DaysBeforeYear(y) ==
    (y - 1) * 365 + ((y - 1) \div 4) - ((y - 1) \div 100)
    + ((y - 1) \div 400)

DaysInMonth(y, m) ==
    IF m = 2 THEN (IF IsLeap(y) THEN 29 ELSE 28)
    ELSE IF m \in {4, 6, 9, 11} THEN 30 ELSE 31

RECURSIVE DaysBeforeMonth(_, _)
DaysBeforeMonth(y, m) ==
    IF m = 1 THEN 0 ELSE DaysBeforeMonth(y, m - 1) + DaysInMonth(y, m - 1)

\* date(y, m, d).toordinal()
Ordinal(y, m, d) == DaysBeforeYear(y) + DaysBeforeMonth(y, m) + d

\* The ordinal of the Monday that starts ISO week 1 of year y.
IsoWeek1Monday(y) ==
    LET firstday == Ordinal(y, 1, 1)
        firstweekday == (firstday + 6) % 7
        week1monday == firstday - firstweekday
    IN  IF firstweekday > 3 THEN week1monday + 7 ELSE week1monday

\* date(y, m, d).isocalendar() as [year, week]
IsoCalendar(y, m, d) ==
    LET today == Ordinal(y, m, d)
        week1monday == IsoWeek1Monday(y)
    IN  IF today < week1monday
        THEN [year |-> y - 1,
              week |-> ((today - IsoWeek1Monday(y - 1)) \div 7) + 1]
        ELSE LET week == (today - week1monday) \div 7 IN
             IF week >= 52 /\ today >= IsoWeek1Monday(y + 1)
             THEN [year |-> y + 1, week |-> 1]
             ELSE [year |-> y, week |-> week + 1]

\* _get_weeks_in_year: date(year, 12, 28).isocalendar()[1]
WeeksInYear_dec31(year) == IsoCalendar(year, 12, 31).week

WeeksInYear(year) == IsoCalendar(year, 12, 28).week

-----------------------------------------------------------------------------
(* Gap analysis: get_missing_data, _parse_existing_files,                   *)
(* _is_params_in_existing                                                   *)

\* sub in s
Contains(s, sub) ==
    \E i \in 1..(Len(s) - Len(sub) + 1) : SubSeq(s, i, i + Len(sub) - 1) = sub

\* The position of the last "." of name, 0 if there is none.
LastDot(name) ==
    IF \E i \in 1..Len(name) : Char(name, i) = "."
    THEN CHOOSE i \in 1..Len(name) :
            /\ Char(name, i) = "."
            /\ \A j \in (i + 1)..Len(name) : Char(name, j) # "."
    ELSE 0

\* Path(name).stem
Stem(name) ==
    IF LastDot(name) > 1 THEN SubSeq(name, 1, LastDot(name) - 1) ELSE name

RECURSIVE SplitFrom(_, _, _)
\* The parts of s from position i on, cur being the part read so far.
SplitFrom(s, i, cur) ==
    IF i > Len(s) THEN <<cur>>
    ELSE IF Char(s, i) = "_" THEN <<cur>> \o SplitFrom(s, i + 1, "")
         ELSE SplitFrom(s, i + 1, cur \o Char(s, i))

\* s.split("_")
Split(s) == SplitFrom(s, 1, "")

ReportType(data_type) ==
    IF data_type = "sentinel_weekly_gender" THEN "1"
    ELSE IF data_type = "sentinel_weekly_age" THEN "0"
    ELSE IF data_type = "sentinel_weekly_health_center" THEN "2"
    ELSE IF data_type = "sentinel_weekly_medical_district" THEN "5"
    ELSE IF data_type = "sentinel_monthly_gender" THEN "15"
    ELSE IF data_type = "sentinel_monthly_age" THEN "10"
    ELSE IF data_type = "sentinel_monthly_health_center" THEN "11"
    ELSE IF data_type = "sentinel_monthly_medical_district" THEN "12"
    ELSE IF data_type = "notifiable_weekly" THEN "20"
    ELSE "0"

\* FetchParams(start_year=year, start_sub_period=period, end_year=year,
\* end_sub_period=period, data_type=..., report_type=...)
FetchParams(year, period, data_type) ==
    [start_year |-> year, start_sub_period |-> period, end_year |-> year,
     end_sub_period |-> period, data_type |-> data_type,
     report_type |-> ReportType(data_type)]

\* The fields _parse_existing_files reads from one file name: parts[-4] and
\* parts[-3] of the stem.
ParsedFields(parts) ==
    [year |-> parts[Len(parts) - 3], period |-> parts[Len(parts) - 2]]

RECURSIVE ParseExistingFiles(_, _)
ParseExistingFiles(file_names, data_type) ==
    IF file_names = <<>> THEN <<>>
    ELSE LET name == Head(file_names)
             parts == Split(Stem(name))
             rest == ParseExistingFiles(Tail(file_names), data_type)
         IN  IF Contains(name, data_type) /\ Len(parts) >= 5
             THEN <<FetchParams(ParsedFields(parts).year,
                                ParsedFields(parts).period, data_type)>>
                  \o rest
             ELSE rest

IsParamsInExisting(params, existing_params) ==
    \E i \in 1..Len(existing_params) :
        /\ params.start_year = existing_params[i].start_year
        /\ params.start_sub_period = existing_params[i].start_sub_period
        /\ params.data_type = existing_params[i].data_type

\* max_period of one year of the loop, for the date now.
MaxPeriodOf(data_type, year, now) ==
    IF Contains(data_type, "monthly")
    THEN IF year < now.year THEN 12 ELSE now.month
    ELSE IF year = now.year
         THEN Min(WeeksInYear(year),
                  IsoCalendar(now.year, now.month, now.day).week)
         ELSE WeeksInYear(year)

RECURSIVE MissingOfYear(_, _, _, _, _)
\* The periods from..max_period of one year that are not in existing_params.
MissingOfYear(data_type, year, from, max_period, existing_params) ==
    IF from > max_period THEN <<>>
    ELSE LET params == FetchParams(Str(year), Str(from), data_type)
             rest == MissingOfYear(data_type, year, from + 1, max_period,
                                   existing_params)
         IN  IF IsParamsInExisting(params, existing_params)
             THEN rest
             ELSE <<params>> \o rest

RECURSIVE MissingFrom(_, _, _, _, _)
MissingFrom(data_type, existing_params, year, end_year, now) ==
    IF year > end_year THEN <<>>
    ELSE MissingOfYear(data_type, year, 1, MaxPeriodOf(data_type, year, now),
                       existing_params)
         \o MissingFrom(data_type, existing_params, year + 1, end_year, now)

GetMissingData(data_type, existing_files, start_year, end_year, now) ==
    MissingFrom(data_type, ParseExistingFiles(existing_files, data_type),
                start_year, end_year, now)

\* The name the fetcher's own metadata gave files before the store named
\* them: {data_type}_{year}_{period}_{YYYYMMDD}_{HHMMSS}.csv
LegacyName(data_type, year, period) ==
    data_type \o "_" \o Str(year) \o "_" \o Str(period)
    \o "_20250101_120000.csv"

NameIn(form, data_type, year, period) ==
    IF form = "canonical" THEN FileName(data_type, year, period)
    ELSE LegacyName(data_type, year, period)

RECURSIVE NamesOf(_, _, _, _, _)
\* The sorted listing of the files of one year for the periods in stored.
NamesOf(form, data_type, year, stored, from) ==
    IF from > MaxStored THEN <<>>
    ELSE (IF from \in stored
          THEN <<NameIn(form, data_type, year, from)>> ELSE <<>>)
         \o NamesOf(form, data_type, year, stored, from + 1)

GapTypes == {"sentinel_weekly_gender", "notifiable_weekly",
             "sentinel_monthly_gender"}

\* Dates the analysis runs on: ISO weeks 5 and 52 of 2025, and Monday
\* 30 December 2024, which belongs to ISO week 1 of 2025.
GapNows ==
    {[year |-> 2025, month |-> 1, day |-> 29],
     [year |-> 2025, month |-> 12, day |-> 28],
     [year |-> 2024, month |-> 12, day |-> 30]}

GapCalls ==
    {c \in [data_type : GapTypes, form : {"canonical", "legacy"},
            stored_year : {2025}, stored : SUBSET (1..MaxStored),
            start_year : {2024, 2025}, end_year : {2024, 2025},
            now : GapNows] :
        c.start_year <= c.end_year}

NoGapCall == CHOOSE c \in GapCalls : TRUE

\* Neither of the two other detectors has run.
NoReports ==
    [validated |-> FALSE, validator |-> {}, checked |-> FALSE, checker |-> {}]

GapIdle ==
    /\ gap_call = NoGapCall
    /\ gap_result = <<>>
    /\ gpc = "idle"
    /\ gap_reports = NoReports

GapInit ==
    /\ gap_call \in GapCalls
    /\ gap_result = <<>>
    /\ gpc = "ready"
    /\ gap_reports = NoReports

\* get_missing_data(data_type, existing_files, start_year, end_year)
ComputeGaps ==
    /\ gpc = "ready"
    /\ gap_result' =
          GetMissingData(gap_call.data_type,
                         NamesOf(gap_call.form, gap_call.data_type,
                                 gap_call.stored_year, gap_call.stored, 1),
                         gap_call.start_year, gap_call.end_year, gap_call.now)
    /\ gpc' = "done"
    /\ UNCHANGED <<gap_call, gap_reports, storeVars, fetchVars, calcVars,
                   runVars, nameVars, probe, earlier_runs, threads>>

-----------------------------------------------------------------------------
(* Helper calls: the pure methods, each called once on its own with drawn  *)
(* arguments                                                              *)

NoCalc == [fn |-> "none"]

\* What a call ends in: a returned value, or an exception raised.
CallReturned(value) == [raised |-> "None", value |-> value]

CallRaised(cls) == [raised |-> cls, value |-> <<>>]

CalcIdle ==
    /\ calc_call = NoCalc
    /\ calc_result = 0
    /\ calc_outcome = CallReturned(<<>>)

\* DataFetcherConfig(base_delay, max_delay, enable_jitter), in ticks: base
\* delays of 0.5 s, 1 s and 2 s, maximum delays of 10 s and 60 s.
DelayConfigs ==
    {[max_retries |-> MaxRetries, base_delay |-> b, max_delay |-> m,
      rate_limit_delay |-> 4, enable_jitter |-> j] :
        b \in {2, 4, 8}, m \in {40, 240}, j \in BOOLEAN}

\* handler.calculate_delay(attempt) on a RetryHandler(cfg)
CalculateDelay ==
    /\ calc_call = NoCalc
    /\ \E cfg \in DelayConfigs, n \in 0..MaxAttempt, jitter \in Jitters :
        /\ calc_call' = [fn |-> "calculate_delay", cfg |-> cfg,
                         attempt |-> n, jitter |-> jitter]
        /\ calc_result' = calculate_delay(cfg, n, jitter)
        /\ UNCHANGED calc_outcome
    /\ UNCHANGED <<storeVars, fetchVars, gapVars, runVars, nameVars, probe, earlier_runs, threads>>

CalcYears == 1900..(1900 + MaxYearSpan)

\* fetcher._get_weeks_in_year(year)
GetWeeksInYear ==
    /\ calc_call = NoCalc
    /\ \E year \in CalcYears :
        /\ calc_call' = [fn |-> "get_weeks_in_year", year |-> year]
        /\ calc_result' = WeeksInYear(year)
        /\ UNCHANGED calc_outcome
    /\ UNCHANGED <<storeVars, fetchVars, gapVars, runVars, nameVars, probe, earlier_runs, threads>>

\* A file of the series that is neither an artifact nor a legacy download:
\* its fields are not integers.
OtherName(data_type) == data_type \o "_backup_old_20250101_120000.csv"

\* The files a listing may hold: artifacts named by the store, downloads
\* named the legacy way, and other files of the series.
ListedFiles ==
    [form : {"canonical", "legacy"}, year : {2025}, period : {1, 3, 12}]
    \cup {[form |-> "other", year |-> 0, period |-> 0]}

ListedName(data_type, f) ==
    IF f.form = "other" THEN OtherName(data_type)
    ELSE NameIn(f.form, data_type, f.year, f.period)

Listings ==
    {<<f>> : f \in ListedFiles} \cup
    {<<f, g>> : f \in ListedFiles, g \in ListedFiles}

\* fetcher._parse_existing_files(files, data_type)
ParseExisting ==
    /\ calc_call = NoCalc
    /\ \E dt \in {"sentinel_weekly_gender", "notifiable_weekly"},
          listing \in Listings :
        /\ calc_call' = [fn |-> "parse_existing_files", data_type |-> dt,
                         files |-> listing]
        /\ calc_outcome' =
              CallReturned(
                  ParseExistingFiles([i \in 1..Len(listing) |->
                                         ListedName(dt, listing[i])], dt))
        /\ UNCHANGED calc_result
    /\ UNCHANGED <<storeVars, fetchVars, gapVars, runVars, nameVars, probe, earlier_runs, threads>>

\* An explicit list of target periods, or none.
NoTargets == [given |-> FALSE, list |-> <<>>]

TargetLists ==
    {NoTargets} \cup
    {[given |-> TRUE, list |-> l] :
        l \in {<<1, 52>>, <<52, 53>>, <<0, 54>>, <<1, 12>>, <<0, 13>>}}

TargetTypes == {"sentinel_weekly_gender", "sentinel_monthly_age"}

\* Dates the target lists are used on: ISO weeks 5 and 52 of 2025.
TargetNows == {now \in GapNows : now.year = 2025}

\* The positional arguments of a gap analysis for a target list: the list is
\* the fifth argument for weeks and the sixth for months, the other is None.
TargetArgs(data_type, start_year, end_year, targets) ==
    <<data_type, <<>>, start_year, end_year>>
    \o (IF ~targets.given THEN <<>>
        ELSE IF Contains(data_type, "monthly")
        THEN <<NoTargets, targets>>
        ELSE <<targets, NoTargets>>)

\* fetcher.get_missing_data(*args): the method has the parameters data_type,
\* existing_files, start_year and end_year; more arguments are a TypeError
\* of the call itself.
CallGetMissingData(args, now) ==
    IF Len(args) > 4 THEN CallRaised("TypeError")
    ELSE CallReturned(GetMissingData(args[1], args[2], args[3], args[4], now))

\* The gap analysis is asked for the year 2025 with a target list.
GetMissingDataForTargets ==
    /\ calc_call = NoCalc
    /\ \E dt \in TargetTypes, targets \in TargetLists, now \in TargetNows :
        /\ calc_call' = [fn |-> "get_missing_data", data_type |-> dt,
                         targets |-> targets, now |-> now]
        /\ calc_outcome' =
              CallGetMissingData(TargetArgs(dt, 2025, 2025, targets), now)
        /\ UNCHANGED calc_result
    /\ UNCHANGED <<storeVars, fetchVars, gapVars, runVars, nameVars, probe, earlier_runs, threads>>

\* DataCollector(config, **kwargs): the constructor has the parameters
\* config and dry_run; any other keyword is a TypeError of the call.
NewDataCollector(kwargs) ==
    IF kwargs \subseteq {"dry_run"} THEN CallReturned(<<>>)
    ELSE CallRaised("TypeError")

\* The keywords a collector is made with for a target list.
TargetKwargs(targets) ==
    IF targets.given
    THEN {"dry_run", "skip_existing", "force_update", "target_weeks",
          "target_months"}
    ELSE {"dry_run"}

\* max_period / max_week of one year in _generate_all_params.
MaxPlannedOf(is_monthly, year, now) ==
    IF is_monthly
    THEN IF year < now.year THEN 12 ELSE now.month
    ELSE IF year = now.year
         THEN Min(WeeksInYear(year),
                  IsoCalendar(now.year, now.month, now.day).week)
         ELSE WeeksInYear(year)

RECURSIVE ParamsOfYear(_, _, _, _)
\* The parameters of the periods from..max_period of one year, in order.
ParamsOfYear(data_type, year, from, max_period) ==
    IF from > max_period THEN <<>>
    ELSE <<FetchParams(Str(year), Str(from), data_type)>>
         \o ParamsOfYear(data_type, year, from + 1, max_period)

RECURSIVE GenerateAllParams(_, _, _, _, _)
\* collector._generate_all_params(data_type, start_year, end_year,
\* is_monthly) on the date now.
GenerateAllParams(data_type, start_year, end_year, is_monthly, now) ==
    IF start_year > end_year THEN <<>>
    ELSE ParamsOfYear(data_type, start_year, 1,
                      MaxPlannedOf(is_monthly, start_year, now))
         \o GenerateAllParams(data_type, start_year + 1, end_year,
                              is_monthly, now)

\* Years planned: 2020 has 53 weeks, 2025 has 52.
PlanYears == {2020, 2025}

\* A collector is made for a target list and plans the periods of one year.
PlanPeriods ==
    /\ calc_call = NoCalc
    /\ \E dt \in TargetTypes, year \in PlanYears, targets \in TargetLists,
          now \in TargetNows :
        /\ calc_call' = [fn |-> "generate_all_params", data_type |-> dt,
                         year |-> year, targets |-> targets, now |-> now]
        /\ calc_outcome' =
              IF NewDataCollector(TargetKwargs(targets)).raised # "None"
              THEN NewDataCollector(TargetKwargs(targets))
              ELSE CallReturned(
                      GenerateAllParams(dt, year, year,
                                        Contains(dt, "monthly"), now))
        /\ UNCHANGED calc_result
    /\ UNCHANGED <<storeVars, fetchVars, gapVars, runVars, nameVars, probe, earlier_runs, threads>>

-----------------------------------------------------------------------------
(* StorageManager.get_existing_files *)

IsDigit(c) == c \in {"0", "1", "2", "3", "4", "5", "6", "7", "8", "9"}

\* year_pattern.search(name) for rf"_{year}_\d{{2}}\.csv$"
MatchesYear(name, year) ==
    LET prefix == "_" \o Str(year) \o "_"
        n == Len(name)
        k == Len(prefix)
    IN  /\ n >= k + 6
        /\ SubSeq(name, n - 3, n) = ".csv"
        /\ IsDigit(Char(name, n - 4))
        /\ IsDigit(Char(name, n - 5))
        /\ SubSeq(name, n - 5 - k, n - 6) = prefix

\* fnmatch of the name against "*.csv"
IsCsv(name) == Len(name) >= 4 /\ SubSeq(name, Len(name) - 3, Len(name)) = ".csv"

RECURSIVE SortedNames(_)
\* sorted(files)
SortedNames(names) ==
    IF names = {} THEN <<>>
    ELSE LET first == CHOOSE x \in names :
                          \A y \in names \ {x} : StrLess(x, y)
         IN  <<first>> \o SortedNames(names \ {first})

\* A listing that does not filter by year.
GetExistingFiles_any_year(fs, data_type, year) ==
    SortedNames({name \in DOMAIN fs :
                    /\ fs[name].exists
                    /\ IsCsv(name)
                    /\ data_type # "" => Contains(name, data_type)})

\* get_existing_files(data_type, year) over the files fs; "" and 0 stand
\* for arguments left out (both are falsy in the code as well).
GetExistingFiles(fs, data_type, year) ==
    SortedNames({name \in DOMAIN fs :
                    /\ fs[name].exists
                    /\ IsCsv(name)
                    /\ data_type # "" => Contains(name, data_type)
                    /\ year # 0 => MatchesYear(name, year)})

-----------------------------------------------------------------------------
(* The collector: main and DataCollector of scripts/fetch_data.py.  One    *)
(* run of the program over its command line, its configuration and the     *)
(* date; time is counted in hours.                                         *)

\* The options a command line may hold besides the ones main declares.
Flags == {"--dry-run", "--skip-existing", "--force-update"}

\* The options main adds to its parser (those without a value).
DeclaredFlags == {"--dry-run"}

\* A command line whose --dry-run is not handed to the collector.
ParseArgs_dry_run_ignored(argv) ==
    [ok |-> argv \subseteq DeclaredFlags, dry_run |-> FALSE]

\* parser.parse_args(): an option that was not declared ends the process
\* with status 2 before anything else runs.
ParseArgs(argv) ==
    IF argv \subseteq DeclaredFlags
    THEN [ok |-> TRUE, dry_run |-> "--dry-run" \in argv]
    ELSE [ok |-> FALSE, dry_run |-> FALSE]

\* The series of a run; each has a fetch method in fetcher.fetch_methods.
RunTypes == {"notifiable_weekly", "sentinel_monthly_age"}

\* Dates of a run: Wednesday 17 January 2024 (ISO week 3) and Monday
\* 30 December 2024 (ISO week 1 of 2025).
RunNows ==
    {[year |-> 2024, month |-> 1, day |-> 17],
     [year |-> 2024, month |-> 12, day |-> 30]}

BatchSizes == {1, 2}

\* collection.data_types_to_collect
TypeLists ==
    {<<a>> : a \in RunTypes} \cup
    {t \in RunTypes \X RunTypes : t[1] # t[2]}

RECURSIVE ParseInt(_)
\* int(s) for a string of digits.
ParseInt(s) ==
    IF s = "" THEN 0
    ELSE 10 * ParseInt(SubSeq(s, 1, Len(s) - 1))
         + (CHOOSE d \in 0..9 : Str(d) = Char(s, Len(s)))

\* The work list of one series (_collect_data_type, lines 131-143).
WorkList(incremental_mode, fs, data_type, start_year, end_year, now) ==
    IF incremental_mode
    THEN GetMissingData(data_type, GetExistingFiles(fs, data_type, 0),
                        start_year, end_year, now)
    ELSE GenerateAllParams(data_type, start_year, end_year,
                           Contains(data_type, "monthly"), now)

RECURSIVE WorkSize(_, _, _)
\* The periods a run over the series in types plans at most.
WorkSize(types, start_year, now) ==
    IF types = <<>> THEN 0
    ELSE Len(GenerateAllParams(Head(types), start_year, now.year,
                               Contains(Head(types), "monthly"), now))
         + WorkSize(Tail(types), start_year, now)

\* The command line, the configuration and the date of a run.
RunInputs ==
    {r \in [argv : SUBSET Flags, incremental_mode : BOOLEAN,
            batch_size : BatchSizes, auto_commit : BOOLEAN,
            max_execution_time_hours : {MaxHours}, data_types : TypeLists,
            start_year : {2024}, now : RunNows] :
        WorkSize(r.data_types, r.start_year, r.now) <= MaxWork}

\* self.stats of a new DataCollector
NewStats ==
    [total_files |-> 0, successful |-> 0, failed |-> 0, duplicates |-> 0,
     errors |-> <<>>]

NoWork == [types_left |-> <<>>, data_type |-> "", list |-> <<>>, next |-> 0]

\* What fetch_with_retry returns to the collector for one period: the
\* payload of a good answer, or the error the request ended in (a 404 at
\* once, a timeout after the retries).
ItemEvents == {"ok", "http_404", "timeout"}

ItemFetch(event, data) ==
    IF event = "ok"
    THEN [success |-> TRUE, data |-> data, error |-> "None"]
    ELSE [success |-> FALSE, data |-> <<>>,
          error |-> PostRequest(event).exc.cls]

\* How long one period takes, in hours.
ItemHours == {0, MaxHours + 1}

\* The files a run may find or write: the artifacts of the periods it can
\* plan, and a download an earlier version left under its legacy name.
LegacyDownload == LegacyName("notifiable_weekly", 2024, 1)

RunPaths ==
    {FileName(dt, 2024, p) : dt \in RunTypes, p \in 1..MaxWork}
    \cup {LegacyDownload}

RunIdle ==
    /\ run_in = CHOOSE r \in RunInputs : TRUE
    /\ mpc = "idle"
    /\ stats = NewStats
    /\ work = NoWork
    /\ processed = <<>>
    /\ plans = <<>>
    /\ elapsed = 0
    /\ stopped_at = 0
    /\ commits = <<>>
    /\ exit_code = -1
    /\ main_log = <<>>

\* The program is about to start on a store that is empty or holds the
\* legacy download.
RunInit ==
    /\ run_in \in RunInputs
    /\ mpc = "start"
    /\ stats = NewStats
    /\ work = NoWork
    /\ processed = <<>>
    /\ plans = <<>>
    /\ elapsed = 0
    /\ stopped_at = 0
    /\ commits = <<>>
    /\ exit_code = -1
    /\ main_log = <<>>
    /\ \E legacy \in BOOLEAN :
          files = [f \in RunPaths |->
                      IF legacy /\ f = LegacyDownload
                      THEN FileOf(<<0, 0>>) ELSE NoFile]
    /\ metadata = [f \in RunPaths |-> NoMetadata]
    /\ hash_index = <<>>
    /\ hash_index_file = <<>>
    /\ temp_files = {}
    /\ clock = 0
    /\ faults = 0
    /\ call = NoCall
    /\ result = NoResult

\* main up to the first series: parse_args, load_config, DataCollector(),
\* the head of collect_data.  A failing load_config is an exception caught
\* at the end of main.
Main ==
    /\ mpc = "start"
    /\ \E config_ok \in BOOLEAN :
        IF ~ParseArgs(run_in.argv).ok
        THEN /\ config_ok
             /\ mpc' = "exited"
             /\ exit_code' = 2
             /\ UNCHANGED <<main_log, work>>
        ELSE IF ~config_ok
        THEN /\ mpc' = "exited"
             /\ exit_code' = 1
             /\ main_log' = Append(main_log, "unexpected_error")
             /\ UNCHANGED work
        ELSE /\ mpc' = "series"
             /\ work' = [NoWork EXCEPT !.types_left = run_in.data_types]
             /\ UNCHANGED <<exit_code, main_log>>
    /\ UNCHANGED <<run_in, stats, processed, plans, elapsed, stopped_at,
                   commits, storeVars, fetchVars, gapVars, calcVars, nameVars, probe, earlier_runs, threads>>

\* One turn of the loop of collect_data: _collect_data_type up to its
\* batch loop.
CollectDataType ==
    /\ mpc = "series"
    /\ work.types_left # <<>>
    /\ LET data_type == Head(work.types_left)
           listing == IF run_in.incremental_mode
                      THEN GetExistingFiles(files, data_type, 0)
                      ELSE <<>>
           missing_params ==
               WorkList(run_in.incremental_mode, files, data_type,
                        run_in.start_year, run_in.now.year, run_in.now)
       IN  /\ work' = [types_left |-> Tail(work.types_left),
                       data_type |-> data_type, list |-> missing_params,
                       next |-> 1]
           /\ plans' = Append(plans,
                                [data_type |-> data_type,
                                 incremental |-> run_in.incremental_mode,
                                 listing |-> listing,
                                 list |-> missing_params])
           /\ mpc' = IF missing_params = <<>> THEN "series" ELSE "batch"
    /\ UNCHANGED <<run_in, stats, processed, elapsed, stopped_at, commits,
                   exit_code, main_log, storeVars, fetchVars, gapVars,
                   calcVars, nameVars, probe, earlier_runs, threads>>

\* A counting that leaves duplicates out of the total.
CountItem_duplicates_untotalled(st, fetch, dry_run, saved) ==
    IF fetch.success /\ ~dry_run /\ saved.is_duplicate
    THEN [st EXCEPT !.duplicates = @ + 1]
    ELSE IF ~fetch.success
    THEN [st EXCEPT !.total_files = @ + 1, !.failed = @ + 1,
                    !.errors = Append(@, fetch.error)]
    ELSE IF dry_run \/ saved.success
    THEN [st EXCEPT !.total_files = @ + 1, !.successful = @ + 1]
    ELSE [st EXCEPT !.total_files = @ + 1, !.failed = @ + 1,
                    !.errors = Append(@, saved.error)]

\* A counting that counts a failure and drops its error.
CountItem_error_dropped(st, fetch, dry_run, saved) ==
    LET counted == [st EXCEPT !.total_files = @ + 1] IN
    IF ~fetch.success
    THEN [counted EXCEPT !.failed = @ + 1]
    ELSE IF dry_run
    THEN [counted EXCEPT !.successful = @ + 1]
    ELSE IF saved.is_duplicate
    THEN [counted EXCEPT !.duplicates = @ + 1]
    ELSE IF saved.success
    THEN [counted EXCEPT !.successful = @ + 1]
    ELSE [counted EXCEPT !.failed = @ + 1]

\* A counting that takes every period for a success.
CountItem_all_successful(st, fetch, dry_run, saved) ==
    [st EXCEPT !.total_files = @ + 1, !.successful = @ + 1]

\* The counting at the end of one turn of _process_batch (lines 186-210):
\* fetch is the FetchResult, saved the SaveResult when a save was made.
CountItem(st, fetch, dry_run, saved) ==
    LET counted == [st EXCEPT !.total_files = @ + 1] IN
    IF ~fetch.success
    THEN [counted EXCEPT !.failed = @ + 1,
                         !.errors = Append(@, fetch.error)]
    ELSE IF dry_run
    THEN [counted EXCEPT !.successful = @ + 1]
    ELSE IF saved.is_duplicate
    THEN [counted EXCEPT !.duplicates = @ + 1]
    ELSE IF saved.success
    THEN [counted EXCEPT !.successful = @ + 1]
    ELSE [counted EXCEPT !.failed = @ + 1,
                         !.errors = Append(@, saved.error)]

\* force_overwrite as _process_batch passes it: the argument is left out,
\* so save_with_metadata takes its default.
ForceOverwriteOf(inputs) == FALSE

\* _check_execution_time
CheckExecutionTime(hours, max_hours) == hours > max_hours

\* One turn of the loop of _process_batch: fetch one period, save it, count
\* it; after the last period of a batch _collect_data_type checks the time
\* and leaves its loop when the ceiling is exceeded.
ProcessItem ==
    /\ mpc = "batch"
    /\ LET params == work.list[work.next]
           dry_run == ParseArgs(run_in.argv).dry_run
           year == ParseInt(params.start_year)
           period == ParseInt(params.start_sub_period)
           force_overwrite == ForceOverwriteOf(run_in)
           last_of_batch == \/ work.next % run_in.batch_size = 0
                            \/ work.next = Len(work.list)
       IN
       \E event \in ItemEvents, hours \in ItemHours :
       \E data \in IF event = "ok" THEN Payloads ELSE {<<>>} :
       \E fail \in IF event = "ok" /\ ~dry_run THEN {"none", "write"}
                                               ELSE {"none"} :
       LET fetch == ItemFetch(event, data)
           saving == fetch.success /\ ~dry_run
           after == IF saving
                    THEN SaveWithMetadata(data, work.data_type, year, period,
                                          force_overwrite, fail, <<>>)
                    ELSE [files |-> files, metadata |-> metadata,
                          hash_index |-> hash_index,
                          hash_index_file |-> hash_index_file,
                          temp_files |-> temp_files, result |-> NoResult]
           exceeded == CheckExecutionTime(elapsed + hours,
                                          run_in.max_execution_time_hours)
       IN  /\ fail # "none" =>
                 /\ faults < MaxFaults
                 /\ ReachesFail(data, work.data_type, year, period,
                                force_overwrite, fail)
           /\ files' = after.files
           /\ metadata' = after.metadata
           /\ hash_index' = after.hash_index
           /\ hash_index_file' = after.hash_index_file
           /\ temp_files' = after.temp_files
           /\ result' = after.result
           /\ call' = IF saving
                      THEN SaveCall(data, work.data_type, year, period,
                                    force_overwrite, fail)
                      ELSE NoCall
           /\ faults' = IF fail = "none" THEN faults ELSE faults + 1
           /\ stats' = CountItem(stats, fetch, dry_run, after.result)
           /\ processed' = Append(processed,
                              [data_type |-> work.data_type,
                               year |-> params.start_year,
                               period |-> params.start_sub_period,
                               event |-> event, data |-> data,
                               fail |-> fail, saving |-> saving])
           /\ elapsed' = elapsed + hours
           /\ work' = [work EXCEPT !.next = @ + 1]
           /\ stopped_at' = IF last_of_batch /\ exceeded /\ stopped_at = 0
                            THEN Len(processed) + 1 ELSE stopped_at
           /\ mpc' = IF last_of_batch
                        /\ (exceeded \/ work.next = Len(work.list))
                     THEN "series" ELSE "batch"
    /\ UNCHANGED <<run_in, plans, commits, exit_code, main_log, clock,
                   fetchVars, gapVars, calcVars, nameVars, probe, earlier_runs, threads>>

CommitResult(success, message, error) ==
    [success |-> success, message |-> message, error |-> error]

\* What git finds: whether the directory is in a repository, whether
\* anything is staged after git add, whether git commit works.
GitStates ==
    {g \in [repo : BOOLEAN, staged : BOOLEAN, commit_ok : BOOLEAN] :
        /\ g.staged => g.repo
        /\ g.commit_ok => g.staged}

\* GitHandler.commit: "git diff --cached --quiet" returns 0 when nothing is
\* staged; any other status leads to "git commit", whose failure is a
\* CalledProcessError.
GitCommit(git) ==
    IF git.repo /\ ~git.staged
    THEN CommitResult(TRUE, "No changes to commit", "None")
    ELSE IF git.repo /\ git.commit_ok
    THEN CommitResult(TRUE, "committed", "None")
    ELSE CommitResult(FALSE, "None", "CalledProcessError")

\* A commit that takes a directory outside a repository for an error.
CommitChanges_no_repository_fails(auto_commit, git) ==
    IF ~auto_commit
    THEN CommitResult(TRUE, "Auto commit disabled", "None")
    ELSE IF ~git.repo
    THEN CommitResult(FALSE, "None", "Not a git repository")
    ELSE GitCommit(git)

\* StorageManager.commit_changes
CommitChanges(auto_commit, git) ==
    IF ~auto_commit
    THEN CommitResult(TRUE, "Auto commit disabled", "None")
    ELSE IF ~git.repo
    THEN CommitResult(TRUE, "Not a git repository", "None")
    ELSE GitCommit(git)

\* The end of collect_data: the commit, when the run is not dry and
\* auto_commit is set, and the statistics.
FinishCollect ==
    /\ mpc = "series"
    /\ work.types_left = <<>>
    /\ LET dry_run == ParseArgs(run_in.argv).dry_run IN
       IF ~dry_run /\ run_in.auto_commit
       THEN \E git \in GitStates :
               commits' =
                   Append(commits,
                          [result |-> CommitChanges(run_in.auto_commit
                                                    /\ ~dry_run, git),
                           git |-> git, series_done |-> Len(plans)])
       ELSE UNCHANGED commits
    /\ mpc' = "report"
    /\ UNCHANGED <<run_in, stats, work, processed, plans, elapsed, stopped_at,
                   exit_code, main_log, storeVars, fetchVars, gapVars,
                   calcVars, nameVars, probe, earlier_runs, threads>>

\* An exit code that does not look at the statistics.
ExitCodeOf_always_zero(st) == 0

\* The exit code main chooses from the statistics (lines 422-425).
ExitCodeOf(st) == IF st.failed > 0 THEN 1 ELSE 0

\* The end of main: the statistics file (not in a dry run) and the exit
\* code; a failure to write the file is an exception caught by main.
ExitMain ==
    /\ mpc = "report"
    /\ \E stats_written \in BOOLEAN :
        /\ ParseArgs(run_in.argv).dry_run => stats_written
        /\ IF stats_written
           THEN /\ exit_code' = ExitCodeOf(stats)
                /\ UNCHANGED main_log
           ELSE /\ exit_code' = 1
                /\ main_log' = Append(main_log, "unexpected_error")
    /\ mpc' = "exited"
    /\ UNCHANGED <<run_in, stats, work, processed, plans, elapsed, stopped_at,
                   commits, storeVars, fetchVars, gapVars, calcVars, nameVars, probe, earlier_runs, threads>>

-----------------------------------------------------------------------------
(* The two other gap detectors: ContinuityValidator.validate_data_type of   *)
(* scripts/validate_continuity.py, and collect and analyse of               *)
(* scripts/check_missing.py as main calls them.  Both read the names of the *)
(* directory the gap analysis is given and run on the same date.            *)

\* str.lower() on the letters of file and series names.
Lower(s) ==
    LET upper == "ABCDEFGHIJKLMNOPQRSTUVWXYZ"
        lower == "abcdefghijklmnopqrstuvwxyz"
        low(c) == IF \E k \in 1..26 : Char(upper, k) = c
                  THEN Char(lower, CHOOSE k \in 1..26 : Char(upper, k) = c)
                  ELSE c
        RECURSIVE from(_)
        from(i) == IF i > Len(s) THEN "" ELSE low(Char(s, i)) \o from(i + 1)
    IN  from(1)

StartsWith(s, prefix) ==
    Len(s) >= Len(prefix) /\ SubSeq(s, 1, Len(prefix)) = prefix

\* Whether int(s) returns for a part of a file name: decimal digits (a sign
\* or surrounding blanks do not occur in the names drawn).
IsDigits(s) == s # "" /\ \A i \in 1..Len(s) : IsDigit(Char(s, i))

\* Lines 94-97: the files of the series, by a case-insensitive prefix.
ValidatorFiles(data_type, names) ==
    {names[i] : i \in {j \in 1..Len(names) :
                         /\ Len(names[j]) >= 4
                         /\ SubSeq(names[j], Len(names[j]) - 3,
                                   Len(names[j])) = ".csv"
                         /\ StartsWith(Lower(names[j]),
                                       Lower(data_type) \o "_")}}

\* Lines 113-125: (year, period) from the last two parts of the stem.
ExistingPeriods(file_names) ==
    {<<ParseInt(Split(Stem(name))[Len(Split(Stem(name))) - 1]),
       ParseInt(Split(Stem(name))[Len(Split(Stem(name)))])>> :
        name \in {f \in file_names :
                     LET parts == Split(Stem(f)) IN
                     /\ Len(parts) >= 4
                     /\ IsDigits(parts[Len(parts) - 1])
                     /\ IsDigits(parts[Len(parts)])}}

\* _generate_expected_periods
GenerateExpectedPeriods(start_year, end_year, is_monthly, now) ==
    UNION {{<<year, period>> :
              period \in 1..MaxPlannedOf(is_monthly, year, now)} :
           year \in start_year..end_year}

\* The (year, period) pairs of report.missing_periods; a series without
\* files is reported invalid with no missing periods.
ValidateContinuityOf(data_type, names, start_year, end_year, now) ==
    LET series_files == ValidatorFiles(data_type, names) IN
    IF series_files = {} THEN {}
    ELSE GenerateExpectedPeriods(start_year, end_year,
                                 Contains(data_type, "monthly"), now)
         \ ExistingPeriods(series_files)

NoMatch == [ok |-> FALSE, base |-> "", year |-> 0, idx |-> 0]

\* The end of PAT_WEEK and PAT_MONTH from position j of name on:
\* _(\d{4})_(\d{1,2})(?:_|-), two digits being tried before one.
PatternTail(name, j) ==
    LET n == Len(name)
        head_ok == /\ j + 5 <= n
                   /\ Char(name, j) = "_"
                   /\ IsDigits(SubSeq(name, j + 1, j + 4))
                   /\ Char(name, j + 5) = "_"
        two == /\ head_ok
               /\ j + 8 <= n
               /\ IsDigits(SubSeq(name, j + 6, j + 7))
               /\ Char(name, j + 8) \in {"_", "-"}
        one == /\ head_ok
               /\ j + 7 <= n
               /\ IsDigit(Char(name, j + 6))
               /\ Char(name, j + 7) \in {"_", "-"}
    IN  IF two
        THEN [NoMatch EXCEPT !.ok = TRUE,
                             !.year = ParseInt(SubSeq(name, j + 1, j + 4)),
                             !.idx = ParseInt(SubSeq(name, j + 6, j + 7))]
        ELSE IF one
        THEN [NoMatch EXCEPT !.ok = TRUE,
                             !.year = ParseInt(SubSeq(name, j + 1, j + 4)),
                             !.idx = ParseInt(Char(name, j + 6))]
        ELSE NoMatch

\* The match with word ("_weekly" or "_monthly") at position i of name:
\* first without the optional part (?:_[^_]+)??, then with it.
PatternAt(name, word, i) ==
    LET e == i + Len(word)
        plain == PatternTail(name, e)
        next_sep == {k \in (e + 2)..Len(name) :
                        /\ Char(name, e) = "_"
                        /\ Char(name, k) = "_"
                        /\ \A m \in (e + 1)..(k - 1) : Char(name, m) # "_"}
        longer == IF next_sep = {} THEN NoMatch
                  ELSE PatternTail(name, CHOOSE k \in next_sep : TRUE)
    IN  IF plain.ok
        THEN [plain EXCEPT !.base = SubSeq(name, 1, e - 1)]
        ELSE IF longer.ok
        THEN [longer EXCEPT
                 !.base = SubSeq(name, 1, (CHOOSE k \in next_sep : TRUE) - 1)]
        ELSE NoMatch

\* PAT.search(name): the lazy .+? stops at the first place of word from
\* which the rest of the pattern matches.
PatternSearch(name, word) ==
    LET places == {i \in 2..(Len(name) - Len(word) + 1) :
                      /\ SubSeq(name, i, i + Len(word) - 1) = word
                      /\ PatternAt(name, word, i).ok}
    IN  IF places = {} THEN NoMatch
        ELSE PatternAt(name, word,
                       CHOOSE i \in places : \A k \in places : i <= k)

\* collect: the indices found, as records; a name is tried as a weekly
\* file first.
CollectFound(names) ==
    UNION {LET name == names[i]
               week == PatternSearch(name, "_weekly")
               month == PatternSearch(name, "_monthly")
           IN  IF week.ok
               THEN {[kind |-> "weekly", base |-> week.base,
                      year |-> week.year, idx |-> week.idx]}
               ELSE IF month.ok
               THEN {[kind |-> "monthly", base |-> month.base,
                      year |-> month.year, idx |-> month.idx]}
               ELSE {} :
           i \in 1..Len(names)}

\* analyse(found, current_limit, max_func) over the records of one kind:
\* the periods lost of every (base, year) that has a file.
AnalyseFound(found, kind, now) ==
    LET of_kind == {r \in found : r.kind = kind}
        limit(year) ==
            IF kind = "weekly"
            THEN IF year = now.year
                 THEN IsoCalendar(now.year, now.month, now.day).week
                 ELSE WeeksInYear(year)
            ELSE IF year = now.year THEN now.month ELSE 12
    IN  UNION {{[base |-> r.base, year |-> r.year, period |-> p] :
                  p \in (1..limit(r.year))
                        \ {q.idx : q \in {t \in of_kind :
                                            /\ t.base = r.base
                                            /\ t.year = r.year}}} :
               r \in of_kind}

\* main of check_missing.py: both analyses over what collect found.
CheckMissingOf(names, now) ==
    AnalyseFound(CollectFound(names), "weekly", now)
        \cup AnalyseFound(CollectFound(names), "monthly", now)

\* The listing of the data directory of the gap analysis drawn.
GapListing ==
    NamesOf(gap_call.form, gap_call.data_type, gap_call.stored_year,
            gap_call.stored, 1)

\* validate_data_type(data_type, start_year, end_year)
ValidateContinuity ==
    /\ gpc # "idle"
    /\ ~gap_reports.validated
    /\ gap_reports' =
          [gap_reports EXCEPT
              !.validated = TRUE,
              !.validator =
                  ValidateContinuityOf(gap_call.data_type, GapListing,
                                       gap_call.start_year, gap_call.end_year,
                                       gap_call.now)]
    /\ UNCHANGED <<gap_call, gap_result, gpc, storeVars, fetchVars, calcVars,
                   runVars, nameVars, probe, earlier_runs, threads>>

\* collect(data_dir) and the two calls of analyse
CheckMissing ==
    /\ gpc # "idle"
    /\ ~gap_reports.checked
    /\ gap_reports' =
          [gap_reports EXCEPT
              !.checked = TRUE,
              !.checker = CheckMissingOf(GapListing, gap_call.now)]
    /\ UNCHANGED <<gap_call, gap_result, gpc, storeVars, fetchVars, calcVars,
                   runVars, nameVars, probe, earlier_runs, threads>>

-----------------------------------------------------------------------------
(* Repeated runs: the program is started again on the store the run       *)
(* before left.                                                           *)

\* The runs that are repeated: incremental, one weekly series, the same day.
RepeatInputs ==
    {r \in RunInputs :
        /\ r.argv = {}
        /\ r.incremental_mode
        /\ ~r.auto_commit
        /\ r.data_types = <<"notifiable_weekly">>
        /\ r.now = [year |-> 2024, month |-> 1, day |-> 17]}

RepeatInit ==
    /\ RunInit
    /\ run_in \in RepeatInputs
    /\ ~files[LegacyDownload].exists

\* A new process: main starts again, and StorageManager.__init__ loads
\* hash_index.json.
NextRun ==
    /\ mpc = "exited"
    /\ Len(earlier_runs) < MaxRuns - 1
    /\ earlier_runs' = Append(earlier_runs,
                              [processed |-> processed, plans |-> plans,
                               stats |-> stats, exit_code |-> exit_code])
    /\ mpc' = "start"
    /\ stats' = NewStats
    /\ work' = NoWork
    /\ processed' = <<>>
    /\ plans' = <<>>
    /\ elapsed' = 0
    /\ stopped_at' = 0
    /\ commits' = <<>>
    /\ exit_code' = -1
    /\ main_log' = <<>>
    /\ hash_index' = hash_index_file
    /\ call' = NoCall
    /\ result' = NoResult
    /\ UNCHANGED <<run_in, files, metadata, hash_index_file, temp_files,
                   clock, faults, fetchVars, gapVars, calcVars, nameVars,
                   probe, threads>>

-----------------------------------------------------------------------------
(* The store over one more period than the store above, with saves only:   *)
(* three files, so that the paths of one hash can lie on both sides of a   *)
(* path of another hash.                                                   *)

IndexPeriods == 1..(MaxPeriod + 1)

IndexPaths == {FileName("test_type", 2025, p) : p \in IndexPeriods}

\* StorageManager.__init__ on an empty base directory.
IndexInit ==
    /\ files = [f \in IndexPaths |-> NoFile]
    /\ metadata = [f \in IndexPaths |-> NoMetadata]
    /\ hash_index = <<>>
    /\ hash_index_file = <<>>
    /\ temp_files = {}
    /\ clock = 0
    /\ faults = 0
    /\ call = NoCall
    /\ result = NoResult
    /\ probe = NoProbe
    /\ earlier_runs = <<>>
    /\ threads = NoThreads

\* save_with_metadata, with or without a failure to write hash_index.json.
SaveIndexed ==
    /\ \E data \in Payloads, period \in IndexPeriods,
          force_overwrite \in BOOLEAN,
          fail \in {"none", "remove_index", "update_index"} :
        /\ ReachesFail(data, "test_type", 2025, period, force_overwrite, fail)
        /\ fail # "none" => faults < MaxFaults
        /\ \E after \in {SaveWithMetadata(data, "test_type", 2025, period,
                                          force_overwrite, fail, <<>>)} :
              /\ files' = after.files
              /\ metadata' = after.metadata
              /\ hash_index' = after.hash_index
              /\ hash_index_file' = after.hash_index_file
              /\ temp_files' = after.temp_files
              /\ result' = after.result
        /\ faults' = IF fail = "none" THEN faults ELSE faults + 1
        /\ call' = SaveCall(data, "test_type", 2025, period, force_overwrite,
                            fail)
    /\ probe' = NoProbe
    /\ UNCHANGED <<clock, fetchVars, gapVars, calcVars, runVars, nameVars, earlier_runs, threads>>

\* _add_to_hash_index(h, p) for a path p not listed under h, followed by
\* _remove_from_hash_index(h, p), which rewrites hash_index.json.
AddThenRemove ==
    /\ ~probe.done
    /\ \E data \in Payloads, file_path \in IndexPaths :
        LET file_hash == Sha256(data)
            added == AddToHashIndex(hash_index, file_hash, file_path)
            removed == RemoveFromHashIndex(added, file_hash, file_path)
        IN  /\ file_path \notin PathsOf(hash_index, file_hash)
            /\ hash_index' = removed
            /\ hash_index_file' = removed
            /\ probe' = [done |-> TRUE, hash |-> file_hash,
                         path |-> file_path, before |-> hash_index,
                         added |-> added, after |-> removed]
    /\ UNCHANGED <<files, metadata, temp_files, clock, faults, call, result,
                   fetchVars, gapVars, calcVars, runVars, nameVars, earlier_runs, threads>>

-----------------------------------------------------------------------------
(* The store under threads that save at once on one StorageManager, each    *)
(* its own key and its own payload (test_concurrent_storage_operations).    *)
(* A step is what a thread does between two points where the interpreter   *)
(* can switch threads; writing a file is taken as one step.  self.hash_index *)
(* names a dict object: _add_to_hash_index changes the object in place,     *)
(* _update_hash_index later binds the name to its own sorted copy.          *)

Threads == 1..MaxThreads

ThreadPayload(t) == <<t, t>>

ThreadPath(t) == FileName("test_type", 2025, t)

ThreadPaths == {ThreadPath(t) : t \in Threads}

\* A thread about to call save_with_metadata.  disturbed: the dict the
\* thread iterates over got a new key; rebound: self.hash_index was bound to
\* another dict since the thread began to iterate.
NewThread ==
    [pc |-> "start", sorted_index |-> <<>>, disturbed |-> FALSE,
     rebound |-> FALSE, returned |-> NoResult, warned |-> FALSE]

ThreadInit ==
    /\ files = [f \in ThreadPaths |-> NoFile]
    /\ metadata = [f \in ThreadPaths |-> NoMetadata]
    /\ hash_index = <<>>
    /\ hash_index_file = <<>>
    /\ temp_files = {}
    /\ clock = 0
    /\ faults = 0
    /\ call = NoCall
    /\ result = NoResult
    /\ threads = [t \in Threads |-> NewThread]

ThreadFrame ==
    UNCHANGED <<temp_files, clock, faults, call, result, fetchVars, gapVars,
                calcVars, runVars, nameVars, probe, earlier_runs>>

\* Lines 256-271: validation, hash and duplicate check.
ThreadCheck ==
    \E t \in Threads :
        /\ threads[t].pc = "start"
        /\ threads' =
              IF check_duplicates(hash_index, Sha256(ThreadPayload(t)))
              THEN [threads EXCEPT
                      ![t].pc = "done",
                      ![t].returned = SaveResult(TRUE, "None", "None", "None",
                                                 TRUE, FALSE)]
              ELSE [threads EXCEPT ![t].pc = "write"]
        /\ UNCHANGED <<files, metadata, hash_index, hash_index_file>>
        /\ ThreadFrame

\* Lines 296-311: the payload reaches its canonical path.
ThreadWrite ==
    \E t \in Threads :
        /\ threads[t].pc = "write"
        /\ files' = [files EXCEPT ![ThreadPath(t)] =
                        AtomicWrite(ThreadPath(t), files[ThreadPath(t)],
                                    ThreadPayload(t), "none", <<>>).file]
        /\ threads' = [threads EXCEPT ![t].pc = "metadata"]
        /\ UNCHANGED <<metadata, hash_index, hash_index_file>>
        /\ ThreadFrame

\* Lines 313-337: the metadata side-record.
ThreadMetadata ==
    \E t \in Threads :
        /\ threads[t].pc = "metadata"
        /\ metadata' = [metadata EXCEPT ![ThreadPath(t)] =
                           [exists |-> TRUE,
                            sha256_hash |-> Sha256(ThreadPayload(t)),
                            timestamp |-> clock]]
        /\ threads' = [threads EXCEPT ![t].pc = "add"]
        /\ UNCHANGED <<files, hash_index, hash_index_file>>
        /\ ThreadFrame

\* _update_hash_index, line 521: _add_to_hash_index on the dict that
\* self.hash_index names now.  A thread that iterates over this dict finds
\* it changed.
ThreadAdd ==
    \E t \in Threads :
        /\ threads[t].pc = "add"
        /\ hash_index' = AddToHashIndex(hash_index,
                                        Sha256(ThreadPayload(t)),
                                        ThreadPath(t))
        /\ threads' =
              [u \in Threads |->
                  IF u = t THEN [threads[u] EXCEPT !.pc = "sort"]
                  ELSE IF threads[u].pc = "sorting" /\ ~threads[u].rebound
                       THEN [threads[u] EXCEPT !.disturbed = TRUE]
                       ELSE threads[u]]
        /\ UNCHANGED <<files, metadata, hash_index_file>>
        /\ ThreadFrame

\* _sort_hash_index_by_filename, lines 486-490: the loop over
\* self.hash_index.items() begins.
ThreadBeginSort ==
    \E t \in Threads :
        /\ threads[t].pc = "sort"
        /\ threads' = [threads EXCEPT
                          ![t].pc = "sorting",
                          ![t].sorted_index =
                              SortHashIndexByFilename(hash_index),
                          ![t].disturbed = FALSE,
                          ![t].rebound = FALSE]
        /\ UNCHANGED <<files, metadata, hash_index, hash_index_file>>
        /\ ThreadFrame

\* The loop ends.  When the dict got a key meanwhile, the loop either had
\* read its last item before (and the copy lacks the key) or raises
\* RuntimeError, which _update_hash_index logs as a warning (lines 533-534)
\* before the save returns success.
ThreadEndSort ==
    \E t \in Threads, raises \in BOOLEAN :
        /\ threads[t].pc = "sorting"
        /\ raises => threads[t].disturbed
        /\ threads' =
              IF raises
              THEN [threads EXCEPT
                      ![t].pc = "done",
                      ![t].warned = TRUE,
                      ![t].returned =
                          SaveResult(TRUE, ThreadPath(t),
                                     MetadataName(ThreadPath(t)), "None",
                                     FALSE, TRUE)]
              ELSE [threads EXCEPT ![t].pc = "dump"]
        /\ UNCHANGED <<files, metadata, hash_index, hash_index_file>>
        /\ ThreadFrame

\* Lines 527-529: hash_index.json is written from the thread's copy.
ThreadDump ==
    \E t \in Threads :
        /\ threads[t].pc = "dump"
        /\ hash_index_file' = threads[t].sorted_index
        /\ threads' = [threads EXCEPT ![t].pc = "assign"]
        /\ UNCHANGED <<files, metadata, hash_index>>
        /\ ThreadFrame

\* Line 532: self.hash_index = sorted_index, and the return of the save.
ThreadAssign ==
    \E t \in Threads :
        /\ threads[t].pc = "assign"
        /\ hash_index' = threads[t].sorted_index
        /\ threads' =
              [u \in Threads |->
                  IF u = t
                  THEN [threads[u] EXCEPT
                          !.pc = "done",
                          !.returned =
                              SaveResult(TRUE, ThreadPath(t),
                                         MetadataName(ThreadPath(t)), "None",
                                         FALSE, TRUE)]
                  ELSE IF threads[u].pc = "sorting"
                       THEN [threads[u] EXCEPT !.rebound = TRUE]
                       ELSE threads[u]]
        /\ UNCHANGED <<files, metadata, hash_index_file>>
        /\ ThreadFrame

-----------------------------------------------------------------------------
(* The store under drawn names: save_with_metadata with series names a     *)
(* caller may pass, and get_existing_files over what the saves left.       *)

\* Names given to save_with_metadata: two series, a name that ends in a
\* newline, and two of test_save_with_invalid_data_type.
SaveNames ==
    {"test_type", "other_type", "test_type\n", "../evil", "test;rm -rf /"}

NameYears == {2024, 2025}

\* The files those saves can write.
NamePaths ==
    {FileName(dt, y, p) :
        dt \in {t \in SaveNames : ValidateDataType(t)},
        y \in NameYears, p \in 1..MaxPeriod}

\* The arguments get_existing_files is called with ("" and 0: left out).
ListNames == {"", "test_type", "other_type"}
ListYears == {0} \cup NameYears

NoListing == [done |-> FALSE, data_type |-> "", year |-> 0, names |-> <<>>]

NameIdle ==
    /\ saves = <<>>
    /\ list_call = NoListing

\* StorageManager.__init__ on an empty base directory.
NameInit ==
    /\ files = [f \in NamePaths |-> NoFile]
    /\ metadata = [f \in NamePaths |-> NoMetadata]
    /\ hash_index = <<>>
    /\ hash_index_file = <<>>
    /\ temp_files = {}
    /\ clock = 0
    /\ faults = 0
    /\ call = NoCall
    /\ result = NoResult
    /\ NameIdle
    /\ probe = NoProbe
    /\ earlier_runs = <<>>
    /\ threads = NoThreads

\* save_with_metadata under a drawn name, with or without a write error.
SaveNamed ==
    /\ Len(saves) < MaxSaves
    /\ \E data \in Payloads, data_type \in SaveNames, year \in NameYears,
          period \in 1..MaxPeriod, force_overwrite \in BOOLEAN,
          fail \in {"none", "write"} :
        /\ ReachesFail(data, data_type, year, period, force_overwrite, fail)
        /\ fail # "none" => faults < MaxFaults
        /\ \E partial \in IF fail = "write" THEN PartialWrites(data)
                                            ELSE {<<>>} :
           \E after \in {SaveWithMetadata(data, data_type, year, period,
                                          force_overwrite, fail, partial)} :
                 /\ files' = after.files
                 /\ metadata' = after.metadata
                 /\ hash_index' = after.hash_index
                 /\ hash_index_file' = after.hash_index_file
                 /\ temp_files' = after.temp_files
                 /\ result' = after.result
                 /\ saves' = Append(saves,
                                    [data_type |-> data_type, year |-> year,
                                     period |-> period, data |-> data,
                                     fail |-> fail,
                                     result |-> after.result])
        /\ faults' = IF fail = "none" THEN faults ELSE faults + 1
        /\ call' = SaveCall(data, data_type, year, period, force_overwrite,
                            fail)
    /\ list_call' = NoListing
    /\ UNCHANGED <<clock, fetchVars, gapVars, calcVars, runVars, probe, earlier_runs, threads>>

\* get_existing_files(data_type, year)
ListExisting ==
    /\ \E data_type \in ListNames, year \in ListYears :
          list_call' = [done |-> TRUE, data_type |-> data_type, year |-> year,
                     names |-> GetExistingFiles(files, data_type, year)]
    /\ UNCHANGED <<storeVars, saves, fetchVars, gapVars, calcVars, runVars, probe, earlier_runs, threads>>

-----------------------------------------------------------------------------
(* Specifications *)

\* The store on its own.
Init ==
    /\ StoreInit
    /\ FetchIdle
    /\ config = CHOOSE c \in FetchConfigs : TRUE
    /\ GapIdle
    /\ CalcIdle
    /\ RunIdle
    /\ NameIdle
    /\ probe = NoProbe
    /\ earlier_runs = <<>>
    /\ threads = NoThreads

Next == Save \/ CleanupOldFiles \/ Tick

Spec == Init /\ [][Next]_vars

\* The fetcher on its own.
FetchSpecInit ==
    /\ FetchInit /\ StoreInit /\ GapIdle /\ CalcIdle /\ RunIdle /\ NameIdle
    /\ probe = NoProbe
    /\ earlier_runs = <<>>
    /\ threads = NoThreads

FetchNext == StartFetch \/ Attempt \/ Backoff \/ FinishFetch

FetchSpec == FetchSpecInit /\ [][FetchNext]_vars

\* The gap analysis on its own, over drawn arguments.
GapSpecInit ==
    /\ GapInit
    /\ StoreInit
    /\ FetchIdle
    /\ config = CHOOSE c \in FetchConfigs : TRUE
    /\ CalcIdle
    /\ RunIdle
    /\ NameIdle
    /\ probe = NoProbe
    /\ earlier_runs = <<>>
    /\ threads = NoThreads

GapNext == ComputeGaps

GapSpec == GapSpecInit /\ [][GapNext]_vars

\* The three gap detectors over one directory, in any order.
DetectSpecInit == GapSpecInit

DetectNext == ComputeGaps \/ ValidateContinuity \/ CheckMissing

DetectSpec == DetectSpecInit /\ [][DetectNext]_vars

\* The helpers on their own, over drawn arguments.
CalcSpecInit == Init

CalcNext ==
    \/ CalculateDelay
    \/ GetWeeksInYear
    \/ ParseExisting
    \/ GetMissingDataForTargets
    \/ PlanPeriods

CalcSpec == CalcSpecInit /\ [][CalcNext]_vars

\* One run of the collector.
RunSpecInit ==
    /\ RunInit
    /\ FetchIdle
    /\ config = CHOOSE c \in FetchConfigs : TRUE
    /\ GapIdle
    /\ CalcIdle
    /\ NameIdle
    /\ probe = NoProbe
    /\ earlier_runs = <<>>
    /\ threads = NoThreads

RunNext == Main \/ CollectDataType \/ ProcessItem \/ FinishCollect \/ ExitMain

RunSpec == RunSpecInit /\ [][RunNext]_vars

\* The store under drawn names.
NameSpecInit ==
    /\ NameInit
    /\ FetchIdle
    /\ config = CHOOSE c \in FetchConfigs : TRUE
    /\ GapIdle
    /\ CalcIdle
    /\ RunIdle

NameNext == SaveNamed \/ ListExisting

NameSpec == NameSpecInit /\ [][NameNext]_vars

\* Threads saving at once.
ThreadSpecInit ==
    /\ ThreadInit
    /\ FetchIdle
    /\ config = CHOOSE c \in FetchConfigs : TRUE
    /\ GapIdle
    /\ CalcIdle
    /\ RunIdle
    /\ NameIdle
    /\ probe = NoProbe
    /\ earlier_runs = <<>>

ThreadNext ==
    \/ ThreadCheck
    \/ ThreadWrite
    \/ ThreadMetadata
    \/ ThreadAdd
    \/ ThreadBeginSort
    \/ ThreadEndSort
    \/ ThreadDump
    \/ ThreadAssign

ThreadSpec == ThreadSpecInit /\ [][ThreadNext]_vars

\* The collector run again and again on one store.
RepeatSpecInit ==
    /\ RepeatInit
    /\ FetchIdle
    /\ config = CHOOSE c \in FetchConfigs : TRUE
    /\ GapIdle
    /\ CalcIdle
    /\ NameIdle
    /\ probe = NoProbe
    /\ earlier_runs = <<>>
    /\ threads = NoThreads

RepeatNext ==
    Main \/ CollectDataType \/ ProcessItem \/ FinishCollect \/ ExitMain \/ NextRun

RepeatSpec == RepeatSpecInit /\ [][RepeatNext]_vars

\* The store with saves only, over three files.
IndexSpecInit ==
    /\ IndexInit
    /\ FetchIdle
    /\ config = CHOOSE c \in FetchConfigs : TRUE
    /\ GapIdle
    /\ CalcIdle
    /\ RunIdle
    /\ NameIdle

IndexNext == SaveIndexed \/ AddThenRemove

IndexSpec == IndexSpecInit /\ [][IndexNext]_vars

-----------------------------------------------------------------------------
(* Properties of the store *)

IndexHashes(index) == {index[i].hash : i \in 1..Len(index)}

CallPath == FileName(call.data_type, call.year, call.period)

\* C2: with no I/O error injected, every artifact on disk is listed in
\* hash_index under exactly one hash, the SHA-256 of its current content.
C2_IndexMatchesDisk ==
    faults = 0 =>
        \A f \in StorePaths :
            files[f].exists =>
                HashesOf(hash_index, f) = {Sha256(files[f].data)}

\* C3: a save with force_overwrite = FALSE of a payload whose hash is in
\* hash_index returns success with is_duplicate, no file path, and changes
\* neither files, metadata nor the index (in memory and on disk).
C3_DuplicateSaveIsNoOp ==
    [][(/\ call'.op = "save"
        /\ ~call'.force_overwrite
        /\ Sha256(call'.data) \in IndexHashes(hash_index))
       => /\ result' = SaveResult(TRUE, "None", "None", "None", TRUE, FALSE)
          /\ files' = files
          /\ metadata' = metadata
          /\ hash_index' = hash_index
          /\ hash_index_file' = hash_index_file
          /\ temp_files' = temp_files]_vars

\* A duplicate was reported for a key other than the one holding the payload.
C3_Witness ==
    /\ call.op = "save"
    /\ ~call.force_overwrite
    /\ result.is_duplicate
    /\ ~files[CallPath].exists
    /\ \E f \in StorePaths \ {CallPath} :
          files[f].exists /\ files[f].data = call.data

\* C4: (with no I/O error injected) a stored artifact keeps its content
\* unless a save with force_overwrite = TRUE replaces it, and stays on disk
\* unless cleanup_old_files deletes it.
C4_ArtifactsChangeOnlyByForce ==
    [][\A f \in StorePaths :
          (faults' = 0 /\ files[f].exists) =>
             \/ files'[f] = files[f]
             \/ /\ call'.op = "save"
                /\ call'.force_overwrite
                /\ files'[f].exists
             \/ /\ call'.op = "cleanup"
                /\ ~files'[f].exists]_vars

\* C5: a save whose payload write fails (temporary file or rename) leaves
\* hash_index, in memory and in hash_index.json, as it was.
C5_WriteFailureKeepsIndex ==
    [][(call'.op = "save" /\ call'.fail \in {"write", "replace"})
       => /\ hash_index' = hash_index
          /\ hash_index_file' = hash_index_file]_vars

C7_ForceOverwriteReplaces ==
    [][LET f == FileName(call'.data_type, call'.year, call'.period)
           old_hash == Sha256(files[f].data)
           new_hash == Sha256(call'.data)
       IN  (/\ call'.op = "save"
            /\ call'.force_overwrite
            /\ result'.success
            /\ files[f].exists
            /\ files[f].data # call'.data)
           => /\ files'[f] = FileOf(call'.data)
              /\ f \in PathsOf(hash_index', new_hash)
              /\ f \notin PathsOf(hash_index', old_hash)
              /\ PathsOf(hash_index, old_hash) \subseteq {f}
                    => old_hash \notin IndexHashes(hash_index')
              /\ ~result'.is_new
              /\ ~result'.is_duplicate]_vars

\* A forced save replaced different content whose hash listed only this path.
C7_Witness ==
    /\ call.op = "save"
    /\ call.force_overwrite
    /\ result.success
    /\ call.old_file.exists
    /\ call.old_file.data # call.data
    /\ files[CallPath].data = call.data
    /\ Sha256(call.old_file.data) \notin IndexHashes(hash_index)

\* C8: (with no I/O error injected) after cleanup_old_files deletes an
\* artifact, hash_index no longer lists its path, and check_duplicates on its
\* hash is false unless another stored artifact has the same content.
C8_CleanupUnlistsDeleted ==
    [][(faults' = 0 /\ call'.op = "cleanup") =>
         \A f \in call'.deleted :
            /\ HashesOf(hash_index', f) = {}
            /\ (\A g \in StorePaths :
                   files'[g].exists => files'[g].data # files[f].data)
               => Sha256(files[f].data) \notin IndexHashes(hash_index')]_vars

-----------------------------------------------------------------------------
(* Properties of the retrying fetcher *)

AllRetryable(outs) ==
    \A i \in 1..Len(outs) : outs[i].kind = "raise" /\ Retryable(outs[i].exc)

\* C9: the callable is never invoked more than max_retries + 1 times; when
\* every attempt failed with a retryable error it was invoked exactly
\* max_retries + 1 times with max_retries sleeps and the last error is
\* surfaced; when attempt k returned, there were k - 1 sleeps and the result
\* is returned.
C9_RetryBudget ==
    /\ Len(outcomes) <= config.max_retries + 1
    /\ fpc = "done" =>
         LET n == Len(outcomes) IN
         /\ AllRetryable(outcomes) =>
               /\ n = config.max_retries + 1
               /\ Len(sleeps) = config.max_retries
               /\ retry_result.kind = "raise"
               /\ retry_result.exc = outcomes[n].exc
               /\ ~fetch_result.success
         /\ outcomes[n].kind = "return" =>
               /\ Len(sleeps) = n - 1
               /\ retry_result.kind = "return"
               /\ retry_result.data = outcomes[n].data

\* Two retries were used up on retryable errors and the third attempt failed.
C9_Witness ==
    /\ fpc = "done"
    /\ config.max_retries = 2
    /\ Len(outcomes) = 3
    /\ AllRetryable(outcomes)
    /\ Len(sleeps) = 2
    /\ ~fetch_result.success

TransientEvents == {"timeout", "connection_failure", "http_500", "http_429"}

\* C10: a fetch through the upstream call that ended in a timeout, a
\* connection failure, an HTTP 5xx or an HTTP 429 is reported as failed only
\* after max_retries retries, i.e. after max_retries + 1 invocations.
C10_TransientFailsAfterRetries ==
    (/\ fpc = "done"
     /\ func = "fetch_method"
     /\ ~fetch_result.success
     /\ outcomes[Len(outcomes)].event \in TransientEvents)
    => Len(outcomes) = config.max_retries + 1

PermanentEvents == {"http_404", "malformed"}

\* C11: an upstream call that ended in a permanent error (a 4xx other than
\* 429, or a malformed response) is the last invocation of its fetch, is
\* followed by no backoff sleep, and the fetch is reported as failed.
C11_PermanentFailsAtOnce ==
    func = "fetch_method" =>
        \A i \in 1..Len(outcomes) :
            outcomes[i].event \in PermanentEvents =>
                /\ i = Len(outcomes)
                /\ Len(sleeps) = i - 1
                /\ fpc \in {"done", "idle"}
                /\ ~fetch_result.success

\* C13: with jitter disabled, the sleep after an attempt that failed with an
\* HTTP 429 error is twice the standard delay min(base_delay * 2^n,
\* max_delay) of that attempt n.
C13_RateLimitDoublesDelay ==
    ~config.enable_jitter =>
        \A i \in 1..Len(sleeps) :
            (outcomes[i].exc.cls = "HTTPError" /\ outcomes[i].exc.status = 429)
            => sleeps[i] = 2 * (IF config.base_delay * 2^(i - 1)
                                       < config.max_delay
                                THEN config.base_delay * 2^(i - 1)
                                ELSE config.max_delay)

\* C13 as amended: with jitter disabled, the sleep after an attempt n that
\* failed with an HTTP 429 error is twice the standard delay of attempt
\* n + 1, min(base_delay * 2^(n + 1), max_delay).
C13_RateLimitDoublesNextDelay ==
    ~config.enable_jitter =>
        \A i \in 1..Len(sleeps) :
            (outcomes[i].exc.cls = "HTTPError" /\ outcomes[i].exc.status = 429)
            => sleeps[i] = 2 * (IF config.base_delay * 2^i < config.max_delay
                                THEN config.base_delay * 2^i
                                ELSE config.max_delay)

\* The first attempt failed with a 429 and was followed by a sleep of four
\* times the base delay; the second did too and its sleep was twice the
\* maximum delay.
C13_Witness ==
    /\ ~config.enable_jitter
    /\ Len(sleeps) = 2
    /\ \A i \in 1..2 :
          outcomes[i].exc.cls = "HTTPError" /\ outcomes[i].exc.status = 429
    /\ sleeps[1] = 4 * config.base_delay
    /\ sleeps[2] = 2 * config.max_delay

C15_FetchAlwaysReturnsResult ==
    fpc = "done" =>
        LET last == outcomes[Len(outcomes)] IN
        /\ fetch_result.success <=>
              (last.kind = "return" /\ IsBytes(last.data))
        /\ fetch_result.success =>
              /\ fetch_result.data = last.data
              /\ fetch_result.error = NoError
        /\ ~fetch_result.success =>
              /\ fetch_result.data = "None"
              /\ fetch_result.error # NoError
              /\ last.kind = "raise" => fetch_result.error = last.exc

\* A fetch failed on an error that is not retried, after an earlier attempt
\* had been retried.
C15_Witness ==
    /\ fpc = "done"
    /\ Len(outcomes) = 2
    /\ outcomes[2].kind = "raise"
    /\ ~Retryable(outcomes[2].exc)
    /\ ~fetch_result.success
    /\ fetch_result.error = outcomes[2].exc

-----------------------------------------------------------------------------
(* Properties of the helpers *)

\* The periods of year y that have passed on the date now: weeks up to the
\* ISO week of now in its ISO week-year, months up to the month of now in its
\* calendar year, and every week or month of any other year.
ValidPeriods(data_type, y, now) ==
    LET iso == IsoCalendar(now.year, now.month, now.day) IN
    IF Contains(data_type, "monthly")
    THEN 1..(IF y = now.year THEN now.month ELSE 12)
    ELSE 1..(IF y = iso.year
             THEN (IF iso.week < WeeksInYear(y) THEN iso.week
                   ELSE WeeksInYear(y))
             ELSE WeeksInYear(y))

\* C12: with jitter disabled, calculate_delay(attempt) is
\* min(base_delay * 2^attempt, max_delay) and never exceeds max_delay; with a
\* base delay of 1 s and a maximum of 10 s the delays of attempts 0..4 are
\* 1, 2, 4, 8 and 10 s (4, 8, 16, 32 and 40 ticks).
C12_DelayIsCappedExponential ==
    (calc_call.fn = "calculate_delay" /\ ~calc_call.cfg.enable_jitter) =>
        LET cfg == calc_call.cfg
            n == calc_call.attempt
        IN  /\ calc_result <= cfg.max_delay
            /\ cfg.base_delay * 2^n <= cfg.max_delay
                  => calc_result = cfg.base_delay * 2^n
            /\ cfg.base_delay * 2^n > cfg.max_delay
                  => calc_result = cfg.max_delay
            /\ (cfg.base_delay = 4 /\ cfg.max_delay = 40 /\ n <= 4)
                  => calc_result = <<4, 8, 16, 32, 40>>[n + 1]

\* The delay of attempt 4 with a base of 1 s was capped at the 10 s maximum.
C12_Witness ==
    /\ calc_call.fn = "calculate_delay"
    /\ ~calc_call.cfg.enable_jitter
    /\ calc_call.cfg.base_delay = 4
    /\ calc_call.cfg.max_delay = 40
    /\ calc_call.attempt = 4
    /\ calc_result = 40

\* date(y, 1, 1).weekday(): Monday is 0.
WeekdayOfJan1(y) == (Ordinal(y, 1, 1) + 6) % 7

\* C17: the weeks-in-year function returns 52 or 53, and 53 exactly for the
\* years that begin on a Thursday and the leap years that begin on a
\* Wednesday; it returns 53 for 2020 and 52 for 2023.
C17_WeeksInYear ==
    calc_call.fn = "get_weeks_in_year" =>
        LET y == calc_call.year IN
        /\ calc_result \in {52, 53}
        /\ calc_result = 53 <=>
              \/ WeekdayOfJan1(y) = 3
              \/ IsLeap(y) /\ WeekdayOfJan1(y) = 2
        /\ y = 2020 => calc_result = 53
        /\ y = 2023 => calc_result = 52

\* The function was asked about 2020, a leap year that began on a Wednesday.
C17_Witness ==
    /\ calc_call.fn = "get_weeks_in_year"
    /\ calc_call.year = 2020
    /\ IsLeap(2020)
    /\ WeekdayOfJan1(2020) = 2
    /\ calc_result = 53

\* C18: _parse_existing_files yields, for every listed file of either name
\* form, parameters whose year and period are those of the file as the gap
\* analysis writes them (period 3 as "3", also when the name holds "03"),
\* and nothing for a name whose fields are not integers.
C18_ParsesBothNameForms ==
    calc_call.fn = "parse_existing_files" =>
        LET listing == calc_call.files
            named == {i \in 1..Len(listing) : listing[i].form # "other"}
        IN  /\ \A i \in named :
                  \E j \in 1..Len(calc_outcome.value) :
                      /\ calc_outcome.value[j].start_year = Str(listing[i].year)
                      /\ calc_outcome.value[j].start_sub_period
                            = Str(listing[i].period)
            /\ Len(calc_outcome.value) = Cardinality(named)

\* The periods a target list may name: weeks 1..53, months 1..12.
TargetRange(data_type) ==
    IF Contains(data_type, "monthly") THEN 1..12 ELSE 1..53

\* C19: a gap analysis given a target list with a week outside 1..53 or a
\* month outside 1..12 ends in a ValueError and computes nothing.
C19_InvalidTargetsAreRejected ==
    (/\ calc_call.fn = "get_missing_data"
     /\ calc_call.targets.given
     /\ \E i \in 1..Len(calc_call.targets.list) :
           calc_call.targets.list[i] \notin TargetRange(calc_call.data_type))
    => (calc_outcome.raised = "ValueError" /\ calc_outcome.value = <<>>)

\* C20: the periods planned for a year are its valid periods that are in
\* the target list when one is given, and all its valid periods when none is.
C20_PlanIsValidPeriodsInTargets ==
    calc_call.fn = "generate_all_params" =>
        LET valid == ValidPeriods(calc_call.data_type, calc_call.year,
                                  calc_call.now)
            listed == {calc_call.targets.list[i] :
                          i \in 1..Len(calc_call.targets.list)}
            planned == IF calc_call.targets.given THEN valid \cap listed
                       ELSE valid
        IN  /\ calc_outcome.raised = "None"
            /\ {<<calc_outcome.value[i].start_year,
                   calc_outcome.value[i].start_sub_period>> :
                    i \in 1..Len(calc_outcome.value)}
               = {<<Str(calc_call.year), Str(p)>> : p \in planned}

-----------------------------------------------------------------------------
(* Properties of the collector *)

\* The run of the scenario of C21: one series notifiable_weekly on a date
\* in ISO week 3 of 2024, an empty store, three periods processed, the
\* second answered 404 and the others with different payloads that were
\* saved without an I/O error.
PartialFailureRun ==
    /\ mpc = "exited"
    /\ run_in.data_types = <<"notifiable_weekly">>
    /\ run_in.argv = {}
    /\ ~files[LegacyDownload].exists
    /\ Len(processed) = 3
    /\ \A i \in 1..3 :
          /\ processed[i].data_type = "notifiable_weekly"
          /\ processed[i].year = "2024"
          /\ processed[i].period = Str(i)
          /\ processed[i].fail = "none"
    /\ processed[1].event = "ok"
    /\ processed[2].event = "http_404"
    /\ processed[3].event = "ok"
    /\ processed[1].data # processed[3].data

\* C21: a run over notifiable_weekly, 2024, periods 1..3 with distinct
\* payloads in which period 2 fails with a 404 ends with artifacts for
\* periods 1 and 3 only, one error entry, total 3, successful 2, failed 1,
\* duplicates 0, and exit code 1.
C21_PartialFailureIsReported ==
    PartialFailureRun =>
        /\ files[FileName("notifiable_weekly", 2024, 1)]
              = FileOf(processed[1].data)
        /\ ~files[FileName("notifiable_weekly", 2024, 2)].exists
        /\ files[FileName("notifiable_weekly", 2024, 3)]
              = FileOf(processed[3].data)
        /\ Len(stats.errors) = 1
        /\ stats.total_files = 3
        /\ stats.successful = 2
        /\ stats.failed = 1
        /\ stats.duplicates = 0
        /\ exit_code = 1

C21_Witness == PartialFailureRun /\ exit_code = 1 /\ stats.failed = 1

\* The period of a processed item or of an entry of a work list.
ItemKey(data_type, year, period) ==
    [data_type |-> data_type, year |-> year, period |-> period]

\* The periods of the work lists of all series so far, in order.
RECURSIVE PlannedKeys(_)
PlannedKeys(ps) ==
    IF ps = <<>> THEN <<>>
    ELSE [i \in 1..Len(Head(ps).list) |->
             ItemKey(Head(ps).data_type, Head(ps).list[i].start_year,
                     Head(ps).list[i].start_sub_period)]
         \o PlannedKeys(Tail(ps))

ProcessedKeys ==
    [i \in 1..Len(processed) |->
        ItemKey(processed[i].data_type, processed[i].year,
                processed[i].period)]

\* The fetch or the save of the item failed.
ItemFailed(item) == item.event # "ok" \/ item.fail # "none"

FailedItems == {i \in 1..Len(processed) : ItemFailed(processed[i])}

\* C22: a failed fetch or save never aborts the run: every failure is
\* counted and its error recorded, no period is attempted twice, and a
\* run that no time check stopped ends having attempted every period of
\* every work list exactly once, in order.
C22_FailureDoesNotAbort ==
    /\ stats.total_files = Len(processed)
    /\ stats.failed = Cardinality(FailedItems)
    /\ Len(stats.errors) = Cardinality(FailedItems)
    /\ \A i, j \in 1..Len(processed) :
          ProcessedKeys[i] = ProcessedKeys[j] => i = j
    /\ (mpc \in {"report", "exited"} /\ stopped_at = 0)
          => ProcessedKeys = PlannedKeys(plans)

C22_Witness ==
    /\ mpc = "exited"
    /\ stopped_at = 0
    /\ Len(processed) = 3
    /\ processed[1].event = "timeout"
    /\ processed[2].fail = "write"
    /\ processed[3].event = "ok" /\ processed[3].fail = "none"
    /\ stats.failed = 2
    /\ stats.successful = 1

\* C23: once a time check after a batch has found the ceiling exceeded,
\* no further period of any series is fetched, and the run still ends
\* with its statistics reported and not with an error.
C23_NothingFetchedAfterCeiling ==
    stopped_at # 0 =>
        /\ Len(processed) = stopped_at
        /\ mpc = "exited" =>
              (exit_code = IF stats.failed > 0 THEN 1 ELSE 0)
                  \/ "unexpected_error" \in Range(main_log)

RECURSIVE AllValidKeys(_, _, _, _)
\* Every valid period of the years year..end_year, in order.
AllValidKeys(data_type, year, end_year, now) ==
    IF year > end_year THEN <<>>
    ELSE LET last == Cardinality(ValidPeriods(data_type, year, now)) IN
         [p \in 1..last |-> ItemKey(data_type, Str(year), Str(p))]
         \o AllValidKeys(data_type, year + 1, end_year, now)

\* C24: the work list of a series follows the mode: in incremental mode it
\* is the gap analysis over the store's listing of the series, in force
\* mode it is every valid period of the year range and the store's files
\* are not consulted.
C24_WorkListFollowsMode ==
    /\ \A k \in 1..Len(plans) :
          IF plans[k].incremental
          THEN plans[k].list =
                   GetMissingData(plans[k].data_type, plans[k].listing,
                                  run_in.start_year, run_in.now.year,
                                  run_in.now)
          ELSE /\ plans[k].listing = <<>>
               /\ PlannedKeys(<<plans[k]>>) =
                      AllValidKeys(plans[k].data_type, run_in.start_year,
                                   run_in.now.year, run_in.now)
    /\ (mpc = "batch" /\ work.next = 1 /\ run_in.incremental_mode)
          => plans[Len(plans)].listing =
                 GetExistingFiles(files, work.data_type, 0)

\* C25: every save of a run in force mode is called with force_overwrite
\* true, and every save of a run that is not in force mode with
\* force_overwrite false.
C25_ForceModeOverwrites ==
    (mpc \in {"batch", "series"} /\ call # NoCall)
        => call.force_overwrite = ~run_in.incremental_mode

\* C26: a start with both --skip-existing and --force-update logs the
\* conflict and exits with code 1, and nothing is fetched or written.
C26_ConflictingOptionsExitOne ==
    ({"--skip-existing", "--force-update"} \subseteq run_in.argv
     /\ mpc = "exited")
        => /\ exit_code = 1
           /\ "conflicting_options" \in Range(main_log)
           /\ processed = <<>>
           /\ call = NoCall

\* An exception reached the except clause of main.
ExceptionReachedMain == "unexpected_error" \in Range(main_log)

\* C27: the exit code is 0 exactly when the run completed with no failed
\* item, and 1 when an item failed or an exception reached main.
C27_ExitCodeFollowsFailures ==
    mpc = "exited" =>
        /\ exit_code = 0 <=>
              /\ ParseArgs(run_in.argv).ok
              /\ ~ExceptionReachedMain
              /\ stats.failed = 0
        /\ (stats.failed > 0 \/ ExceptionReachedMain) => exit_code = 1

C27_Witness ==
    /\ mpc = "exited"
    /\ exit_code = 1
    /\ ~ExceptionReachedMain
    /\ stats.failed = 1
    /\ stats.successful = 1

\* C28: a run commits at most once and only after every series has been
\* processed; a commit outside a repository or with nothing staged gives
\* a successful CommitResult.
C28_CommitOnceAfterAllSeries ==
    /\ Len(commits) <= 1
    /\ \A k \in 1..Len(commits) :
          /\ commits[k].series_done = Len(run_in.data_types)
          /\ work.types_left = <<>>
          /\ mpc \in {"report", "exited"}
          /\ (~commits[k].git.repo \/ ~commits[k].git.staged)
                => (commits[k].result.success
                    /\ commits[k].result.error = "None")

C28_Witness ==
    /\ mpc = "exited"
    /\ Len(run_in.data_types) = 2
    /\ Len(processed) >= 2
    /\ Len(commits) = 1
    /\ ~commits[1].git.repo
    /\ commits[1].result.success

-----------------------------------------------------------------------------
(* Properties of the hash index *)

\* The sequence of strings equals its sorted copy.
Ascending(paths) ==
    \A i, j \in 1..Len(paths) :
        i < j => (StrLess(paths[i], paths[j]) \/ paths[i] = paths[j])

\* The paths of hash_index.json in file order, lists expanded in place.
PersistedPaths ==
    [i \in 1..Len(FlattenIndex(hash_index_file)) |->
        FlattenIndex(hash_index_file)[i].path]

\* Every multi-location list of hash_index.json ascends.
ListsAscend ==
    \A i \in 1..Len(hash_index_file) : Ascending(hash_index_file[i].paths)

\* A path of another entry lies between two paths of entry i (it may be
\* the first of them).
Interleaved(index, i) ==
    \E j \in 1..Len(index) :
        /\ j # i
        /\ \E a, b \in Range(index[i].paths), c \in Range(index[j].paths) :
              ~StrLess(c, a) /\ StrLess(c, b)

WellFormedEntry(entry) ==
    IF entry.is_list
    THEN /\ Len(entry.paths) >= 2
         /\ \A i, j \in 1..Len(entry.paths) :
               i # j => entry.paths[i] # entry.paths[j]
    ELSE Len(entry.paths) = 1

WellFormedIndex(index) ==
    /\ \A i \in 1..Len(index) : WellFormedEntry(index[i])
    /\ \A i, j \in 1..Len(index) : i # j => index[i].hash # index[j].hash

\* C39: every value of hash_index, in memory and in hash_index.json, is a
\* single path or a list of at least two different paths, never an empty
\* or one-element list; and _add_to_hash_index(h, p) followed by
\* _remove_from_hash_index(h, p), for a path p not listed under h, leaves
\* the mapping the index had before.
C39_IndexValuesAndAddRemove ==
    /\ WellFormedIndex(hash_index)
    /\ WellFormedIndex(hash_index_file)
    /\ probe.done =>
          /\ probe.path \in PathsOf(probe.added, probe.hash)
          /\ Range(probe.after) = Range(probe.before)
          /\ Len(probe.after) = Len(probe.before)

\* The pair was applied to a hash listed with one path, which became a list
\* of two and a single path again.
C39_Witness ==
    /\ probe.done
    /\ \E i \in 1..Len(probe.before) :
          /\ probe.before[i].hash = probe.hash
          /\ ~probe.before[i].is_list
          /\ probe.added[i].is_list
          /\ Len(probe.added[i].paths) = 2
          /\ ~probe.after[i].is_list
    /\ \E i \in 1..Len(hash_index) : hash_index[i].is_list

-----------------------------------------------------------------------------
(* Properties of the store under drawn names *)

\* The name holds a character other than an ASCII letter, digit or "_".
HasOtherCharacter(name) ==
    \E i \in 1..Len(name) : Char(name, i) \notin AllowedChars

\* C29: save_with_metadata with a data_type that holds a character other
\* than ASCII letters, digits and underscore returns success = FALSE with
\* an "Invalid data_type" error and leaves files, metadata and the hash
\* index unchanged.
C29_InvalidDataTypeIsRejected ==
    [][(/\ Len(saves') = Len(saves) + 1
        /\ HasOtherCharacter(call'.data_type))
       => /\ ~result'.success
          /\ result'.error = "Invalid data_type"
          /\ files' = files
          /\ metadata' = metadata
          /\ hash_index' = hash_index
          /\ hash_index_file' = hash_index_file]_vars

\* The saves made for one series and year.
SavesFor(data_type, year) ==
    {i \in 1..Len(saves) :
        saves[i].data_type = data_type /\ saves[i].year = year}

\* The canonical names of those saves.
CanonicalNames(data_type, year) ==
    {FileName(data_type, year, saves[i].period) :
        i \in SavesFor(data_type, year)}

\* get_existing_files was called with a series and a year.
ListedSeries ==
    list_call.done /\ list_call.data_type # "" /\ list_call.year # 0

-----------------------------------------------------------------------------
(* Properties of the statistics *)

\* The three outcome counters of a statistics record.
OutcomeCounters(st) == <<st.successful, st.failed, st.duplicates>>

\* Exactly one of the three counters of before is one higher in after, and
\* the other two are the same.
OneCounterUp(before, after) ==
    \E k \in 1..3 :
        \A j \in 1..3 :
            OutcomeCounters(after)[j] =
                OutcomeCounters(before)[j] + (IF j = k THEN 1 ELSE 0)

\* C34: in every state of a collector run total_files is the number of
\* items processed and equals successful + failed + duplicates, the error
\* list is no longer than failed, and every processed item raises
\* total_files and exactly one of the three counters by one.
C34_CountersAddUp ==
    /\ [](/\ stats.total_files = Len(processed)
          /\ stats.total_files =
                 stats.successful + stats.failed + stats.duplicates
          /\ Len(stats.errors) <= stats.failed)
    /\ [][processed' # processed
            => /\ Len(processed') = Len(processed) + 1
               /\ stats'.total_files = stats.total_files + 1
               /\ OneCounterUp(stats, stats')]_vars

\* A run that has stored one period, met one duplicate and failed one.
C34_Witness ==
    /\ mpc = "exited"
    /\ stats.successful = 1
    /\ stats.duplicates = 1
    /\ stats.failed = 1
    /\ Len(stats.errors) = 1
    /\ stats.total_files = 3

-----------------------------------------------------------------------------
(* Properties of a dry run *)

\* The run was started with --dry-run and nothing else.
DryRun == run_in.argv = {"--dry-run"}

\* The periods processed so far whose fetch succeeded.
FetchedOk == {i \in 1..Len(processed) : processed[i].event = "ok"}

\* C37: in a run started with --dry-run no step changes an artifact, a
\* metadata side-record or the hash index (in memory or on disk),
\* save_with_metadata is never called, no commit is attempted, and every
\* period whose fetch succeeded is counted as successful.
C37_DryRunLeavesStoreUnchanged ==
    /\ [][DryRun => /\ files' = files
                    /\ metadata' = metadata
                    /\ hash_index' = hash_index
                    /\ hash_index_file' = hash_index_file
                    /\ temp_files' = temp_files
                    /\ call' = NoCall]_vars
    /\ [](DryRun => /\ commits = <<>>
                    /\ \A i \in 1..Len(processed) : ~processed[i].saving
                    /\ stats.successful = Cardinality(FetchedOk)
                    /\ stats.duplicates = 0)

\* A dry run with auto_commit set that has ended after two good fetches of
\* the same payload, with nothing stored.
C37_Witness ==
    /\ DryRun
    /\ run_in.auto_commit
    /\ mpc = "exited"
    /\ stats.successful = 2
    /\ \E i, j \in FetchedOk : i # j /\ processed[i].data = processed[j].data
    /\ \A f \in RunPaths : files[f].exists => f = LegacyDownload
    /\ hash_index = <<>>

-----------------------------------------------------------------------------
(* Properties of concurrent saves *)

AllReturned == \A t \in Threads : threads[t].pc = "done"

\* C38: when several threads save at once on one StorageManager, each its
\* own key and its own payload, every call returns success, and once all
\* have returned every saved path is listed under its hash in hash_index
\* and in hash_index.json: no index update is lost.
C38_NoIndexUpdateLost ==
    /\ \A t \in Threads :
          threads[t].pc = "done" => threads[t].returned.success
    /\ (threads # NoThreads /\ AllReturned) =>
          \A t \in Threads :
              /\ ThreadPath(t)
                    \in PathsOf(hash_index, Sha256(ThreadPayload(t)))
              /\ ThreadPath(t)
                    \in PathsOf(hash_index_file, Sha256(ThreadPayload(t)))

-----------------------------------------------------------------------------
(* Properties of repeated runs *)

\* The periods of a series whose fetch succeeded in an earlier run.
FetchedEarlier(data_type) ==
    UNION {{[data_type |-> data_type, year |-> r.processed[i].year,
             period |-> r.processed[i].period] :
               i \in {j \in 1..Len(r.processed) :
                         /\ r.processed[j].data_type = data_type
                         /\ r.processed[j].event = "ok"}} :
           r \in Range(earlier_runs)}

\* C32: a period whose fetch succeeded in one incremental run is not in
\* the work list the gap analysis gives the next run (so the work lists
\* run empty when the upstream always answers), also when two periods
\* returned the same bytes.  No I/O error is injected.
C32_FetchedPeriodsAreNotMissingAgain ==
    faults = 0 =>
        \A k \in 1..Len(plans) :
            Range(PlannedKeys(<<plans[k]>>))
                \cap FetchedEarlier(plans[k].data_type) = {}

-----------------------------------------------------------------------------
(* Properties of a save as a whole *)

\* C33: a save that returns success = FALSE, for any failing step (payload
\* write, rename, metadata write, index removal), leaves the artifact at the
\* canonical path unchanged; a save that returns success = TRUE without
\* is_duplicate leaves the artifact, its metadata side-record and its index
\* entry in place.
C33_SaveIsAllOrNothing ==
    [][/\ (call'.op = "save" /\ ~result'.success) => files' = files
       /\ (call'.op = "save" /\ result'.success /\ ~result'.is_duplicate)
            => LET f == FileName(call'.data_type, call'.year, call'.period)
               IN  /\ files'[f] = FileOf(call'.data)
                   /\ metadata'[f].exists
                   /\ f \in PathsOf(hash_index', Sha256(call'.data))
                   /\ f \in PathsOf(hash_index_file', Sha256(call'.data))]_vars

-----------------------------------------------------------------------------
(* Properties of the gap analysis *)

RECURSIVE PeriodsFrom(_, _, _, _, _)
\* FetchParams of the periods from..to of year that are not in skip.
PeriodsFrom(data_type, year, from, to, skip) ==
    IF from > to THEN <<>>
    ELSE (IF from \in skip THEN <<>>
          ELSE <<FetchParams(Str(year), Str(from), data_type)>>)
         \o PeriodsFrom(data_type, year, from + 1, to, skip)

RECURSIVE ExpectedMissing(_, _, _)
\* The valid weeks of the years year..c.end_year without the stored ones,
\* in ascending (year, period) order.
ExpectedMissing(c, year, now_iso) ==
    IF year > c.end_year THEN <<>>
    ELSE PeriodsFrom(c.data_type, year, 1,
                     IF year = now_iso.year
                     THEN Min(WeeksInYear(year), now_iso.week)
                     ELSE WeeksInYear(year),
                     IF year = c.stored_year THEN c.stored ELSE {})
         \o ExpectedMissing(c, year + 1, now_iso)

\* C1: for a weekly series whose files have canonical names,
\* get_missing_data returns exactly the valid periods of the requested
\* years that have no stored file, in ascending (year, period) order.
C1_GapsOfCanonicalStore ==
    (/\ gpc = "done"
     /\ ~Contains(gap_call.data_type, "monthly")
     /\ gap_call.form = "canonical")
    => gap_result =
          ExpectedMissing(gap_call, gap_call.start_year,
                          IsoCalendar(gap_call.now.year, gap_call.now.month,
                                      gap_call.now.day))

\* C16: with nothing stored, the periods get_missing_data expects of each
\* requested year are 1..weeksInYear(y), capped at the ISO week of now
\* exactly when y is the ISO week-year of now (also around New Year), and for
\* a monthly series 1..12, capped at the month of now exactly when y is the
\* calendar year of now.
C16_ValidPeriodsFollowIsoYear ==
    (gpc = "done" /\ gap_call.stored = {}) =>
        {<<gap_result[i].start_year, gap_result[i].start_sub_period>> :
            i \in 1..Len(gap_result)}
        = UNION {{<<Str(y), Str(p)>> :
                     p \in ValidPeriods(gap_call.data_type, y, gap_call.now)} :
                 y \in gap_call.start_year..gap_call.end_year}

\* The period the date now lies in: its ISO week-year and week for a weekly
\* series, its calendar year and month for a monthly one.
CurrentPeriod(data_type, now) ==
    IF Contains(data_type, "monthly")
    THEN [year |-> now.year, period |-> now.month]
    ELSE LET iso == IsoCalendar(now.year, now.month, now.day)
         IN  [year |-> iso.year, period |-> iso.week]

\* Whether the period of params lies after the current period of now.
AfterCurrentPeriod(params, now) ==
    LET current == CurrentPeriod(params.data_type, now)
        year == ParseInt(params.start_year)
        period == ParseInt(params.start_sub_period)
    IN  \/ year > current.year
        \/ year = current.year /\ period > current.period

\* C35: for any year range, also one that ends after the current year,
\* get_missing_data and _generate_all_params return no period that lies
\* after the current period (week or month) of now.
C35_NoFuturePeriods ==
    /\ gpc = "done" =>
          \A i \in 1..Len(gap_result) :
              ~AfterCurrentPeriod(gap_result[i], gap_call.now)
    /\ (calc_call.fn = "generate_all_params"
           /\ calc_outcome.raised = "None") =>
          \A i \in 1..Len(calc_outcome.value) :
              ~AfterCurrentPeriod(calc_outcome.value[i], calc_call.now)

\* What each detector reported missing for the series and the year range
\* of the call, as (year, period) pairs.
MissingByGapAnalysis ==
    {<<ParseInt(gap_result[i].start_year),
       ParseInt(gap_result[i].start_sub_period)>> : i \in 1..Len(gap_result)}

MissingByValidator == gap_reports.validator

MissingByChecker ==
    {<<r.year, r.period>> :
        r \in {t \in gap_reports.checker :
                  /\ t.base = gap_call.data_type
                  /\ t.year \in gap_call.start_year..gap_call.end_year}}

AllDetectorsRan ==
    gpc = "done" /\ gap_reports.validated /\ gap_reports.checked

\* C36: on a directory that holds files with canonical names only,
\* get_missing_data, validate_data_type and collect followed by analyse
\* report the same missing periods for the same series and year range.
C36_DetectorsAgree ==
    (AllDetectorsRan /\ gap_call.form = "canonical" /\ gap_call.stored # {})
        => /\ MissingByGapAnalysis = MissingByValidator
           /\ MissingByValidator = MissingByChecker

====
